---- MODULE Spec2Model ----
(***************************************************************************)
(* gh-hookmon: the run pipeline of cmd/root.go (discovery pool, filters,   *)
(* enrichment pool, sort, per-repository head limit, output) with the pure *)
(* helpers of internal/config, internal/filter and internal/github.        *)
(*                                                                         *)
(* Strings are sequences of byte values, so that strings.Compare,          *)
(* strings.ToLower, strings.Contains and strings.Split are computed.       *)
(* Instants (time.Time) are integers.  A nil *time.Time is NoTime.         *)
(***************************************************************************)
EXTENDS Integers, Sequences, FiniteSets, Bags, TLC

(***************************************************************************)
(* Bounds of the model.                                                    *)
(***************************************************************************)
MaxRepos == 2
MaxHead == 1
PoolMaxItems == 11
MaxLen == 3
MaxSortHead == 3
MaxFilterLen == 4
MaxTableLen == 2

(***************************************************************************)
(* Strings.                                                                *)
(***************************************************************************)
Min(a, b) == IF a < b THEN a ELSE b

\* strings.ToLower on one byte: 'A'..'Z' (65..90) map to 'a'..'z'.
LowerByte(c) == IF c >= 65 /\ c <= 90 THEN c + 32 ELSE c

\* strings.ToLower
ToLower(s) == [i \in 1..Len(s) |-> LowerByte(s[i])]

\* strings.Contains(s, sub): sub occurs as a contiguous run of s.
Contains(s, sub) ==
  \E i \in 0..(Len(s) - Len(sub)) :
     \A j \in 1..Len(sub) : s[i + j] = sub[j]

\* strings.Compare(a, b): -1, 0 or +1 by lexicographic byte order.
RECURSIVE StrCompare(_, _)
StrCompare(a, b) ==
  IF a = <<>> /\ b = <<>> THEN 0
  ELSE IF a = <<>> THEN -1
  ELSE IF b = <<>> THEN 1
  ELSE IF Head(a) < Head(b) THEN -1
  ELSE IF Head(a) > Head(b) THEN 1
  ELSE StrCompare(Tail(a), Tail(b))

\* strings.Split(s, sep) for a one-byte separator sep.
RECURSIVE Split(_, _)
Split(s, sep) ==
  IF \A i \in 1..Len(s) : s[i] # sep THEN <<s>>
  ELSE LET k == CHOOSE i \in 1..Len(s) :
                   s[i] = sep /\ \A j \in 1..(i - 1) : s[j] # sep
       IN  <<SubSeq(s, 1, k - 1)>> \o Split(SubSeq(s, k + 1, Len(s)), sep)

\* The string literals of the program.
Slash == 47
Colon == 58
StrEmpty == <<>>
StrRepository == <<114, 101, 112, 111, 115, 105, 116, 111, 114, 121>>
StrTimestamp == <<116, 105, 109, 101, 115, 116, 97, 109, 112>>
StrCode == <<99, 111, 100, 101>>
StrEvent == <<101, 118, 101, 110, 116>>
StrAsc == <<97, 115, 99>>
StrDesc == <<100, 101, 115, 99>>

(***************************************************************************)
(* internal/filter                                                         *)
(***************************************************************************)
\* A nil *time.Time.
NoTime == -1

\* An InRange that rejects a time equal to a bound.
InRangeExclusive(deliveredAt, since, until) ==
  IF since # NoTime /\ deliveredAt <= since THEN FALSE
  ELSE IF until # NoTime /\ deliveredAt >= until THEN FALSE
  ELSE TRUE

\* filter.InRange(deliveredAt, since, until)
InRange(deliveredAt, since, until) ==
  IF since # NoTime /\ deliveredAt < since THEN FALSE
  ELSE IF until # NoTime /\ deliveredAt > until THEN FALSE
  ELSE TRUE

\* An IsFailed without the case of status code 0.
IsFailedNoSentinel(statusCode) == statusCode >= 400

\* filter.IsFailed(statusCode)
IsFailed(statusCode) == statusCode = 0 \/ statusCode >= 400

\* filter.MatchesPattern(url, pattern)
MatchesPattern(url, pattern) ==
  IF pattern = StrEmpty THEN TRUE
  ELSE Contains(ToLower(url), ToLower(pattern))

(***************************************************************************)
(* internal/github: hooks                                                  *)
(***************************************************************************)
\* Hook.GetTargetURL
GetTargetURL(h) == IF h.ConfigURL # StrEmpty THEN h.ConfigURL ELSE StrEmpty

\* A MatchesFilter that compares without lowering the case.
MatchesFilterCaseSensitive(h, pattern) ==
  IF pattern = StrEmpty THEN TRUE
  ELSE Contains(GetTargetURL(h), pattern)

\* Hook.MatchesFilter(pattern)
MatchesFilter(h, pattern) ==
  IF pattern = StrEmpty THEN TRUE
  ELSE Contains(ToLower(GetTargetURL(h)), ToLower(pattern))

(***************************************************************************)
(* internal/github: sorting.  sort.Slice on at most 12 elements is the     *)
(* insertion sort of the sort package (pdqsort's maxInsertion = 12): for   *)
(* i from the second element on, the element moves down while it is less   *)
(* than its predecessor.  Every slice of the model is shorter than that.   *)
(***************************************************************************)
SwapAt(t, j, k) == [t EXCEPT ![j] = t[k], ![k] = t[j]]

\* sort.Slice(deliveries, less), less[<<a, b>>] telling whether a goes before b.
SortSlice(deliveries, less) ==
  LET RECURSIVE InsertDown(_, _)
      InsertDown(t, j) ==
        IF j > 1 /\ less[<<t[j], t[j - 1]>>]
        THEN InsertDown(SwapAt(t, j, j - 1), j - 1)
        ELSE t
      RECURSIVE InsertFrom(_, _)
      InsertFrom(t, i) ==
        IF i > Len(t) THEN t
        ELSE InsertFrom(InsertDown(t, i), i + 1)
  IN  InsertFrom(deliveries, 2)

\* The pairs of elements a less closure of deliveries can be asked about.
Pairs(deliveries) ==
  {deliveries[i] : i \in 1..Len(deliveries)}
     \X {deliveries[i] : i \in 1..Len(deliveries)}

\* The less closure of SortDeliveriesByTime
LessByTime(a, b, ascending) ==
  IF ascending THEN a.DeliveredAt < b.DeliveredAt
  ELSE a.DeliveredAt > b.DeliveredAt

\* The less closure of SortDeliveriesByRepository
LessByRepository(a, b, ascending) ==
  LET cmp == StrCompare(a.Repository, b.Repository)
  IN  IF ascending THEN cmp < 0 ELSE cmp > 0

\* A less closure by status code that is not strict.
LessByStatusCodeOrEqual(a, b, ascending) ==
  IF ascending THEN a.StatusCode <= b.StatusCode
  ELSE a.StatusCode >= b.StatusCode

\* A less closure by status code that puts code 0, no response, after every
\* other code when ascending and before when descending.
LessByStatusCodeZeroLast(a, b, ascending) ==
  LET ka == IF a.StatusCode = 0 THEN 1000 ELSE a.StatusCode
      kb == IF b.StatusCode = 0 THEN 1000 ELSE b.StatusCode
  IN  IF ascending THEN ka < kb ELSE ka > kb

\* The less closure of SortDeliveriesByStatusCode
LessByStatusCode(a, b, ascending) ==
  IF ascending THEN a.StatusCode < b.StatusCode
  ELSE a.StatusCode > b.StatusCode

\* The less closure of SortDeliveriesByEvent
LessByEvent(a, b, ascending) ==
  LET cmp == StrCompare(a.Event, b.Event)
  IN  IF ascending THEN cmp < 0 ELSE cmp > 0

SortDeliveriesByTime(deliveries, ascending) ==
  SortSlice(deliveries,
            [p \in Pairs(deliveries) |-> LessByTime(p[1], p[2], ascending)])

SortDeliveriesByRepository(deliveries, ascending) ==
  SortSlice(deliveries,
            [p \in Pairs(deliveries) |-> LessByRepository(p[1], p[2], ascending)])

SortDeliveriesByStatusCode(deliveries, ascending) ==
  SortSlice(deliveries,
            [p \in Pairs(deliveries) |-> LessByStatusCode(p[1], p[2], ascending)])

SortDeliveriesByEvent(deliveries, ascending) ==
  SortSlice(deliveries,
            [p \in Pairs(deliveries) |-> LessByEvent(p[1], p[2], ascending)])

\* An ApplySort whose default case sorts by time in the direction given.
ApplySortDefaultKeepsDirection(deliveries, sortBy, ascending) ==
  IF sortBy = StrRepository THEN SortDeliveriesByRepository(deliveries, ascending)
  ELSE IF sortBy = StrCode THEN SortDeliveriesByStatusCode(deliveries, ascending)
  ELSE IF sortBy = StrEvent THEN SortDeliveriesByEvent(deliveries, ascending)
  ELSE SortDeliveriesByTime(deliveries, ascending)

\* github.ApplySort(deliveries, sortBy, ascending)
ApplySort(deliveries, sortBy, ascending) ==
  IF sortBy = StrRepository THEN SortDeliveriesByRepository(deliveries, ascending)
  ELSE IF sortBy = StrCode THEN SortDeliveriesByStatusCode(deliveries, ascending)
  ELSE IF sortBy = StrEvent THEN SortDeliveriesByEvent(deliveries, ascending)
  ELSE IF sortBy = StrTimestamp THEN SortDeliveriesByTime(deliveries, ascending)
  ELSE SortDeliveriesByTime(deliveries, FALSE)

(***************************************************************************)
(* internal/config                                                         *)
(***************************************************************************)
\* Config.GetSortConfig: <<field, ascending>>
GetSortConfig(c) ==
  IF c.SortBy = StrEmpty THEN <<StrTimestamp, FALSE>>
  ELSE LET parts == Split(c.SortBy, Colon)
           field == parts[1]
       IN  IF Len(parts) = 2 THEN <<field, parts[2] = StrAsc>>
           ELSE IF field = StrRepository \/ field = StrEvent THEN <<field, TRUE>>
           ELSE IF field = StrTimestamp \/ field = StrCode THEN <<field, FALSE>>
           ELSE <<StrTimestamp, FALSE>>

(***************************************************************************)
(* cmd/root.go: applyHeadLimit.  order is the order in which the range     *)
(* over the map repoGroups yields its keys.                                *)
(***************************************************************************)
RepoGroup(deliveries, repo) ==
  SelectSeq(deliveries, LAMBDA d : d.Repository = repo)

\* A loop over the groups that takes the last records of each, group[len-count:].
RECURSIVE ConcatTails(_, _, _)
ConcatTails(deliveries, limit, order) ==
  IF order = <<>> THEN <<>>
  ELSE LET group == RepoGroup(deliveries, Head(order))
           count == IF limit > Len(group) THEN Len(group) ELSE limit
       IN  SubSeq(group, Len(group) - count + 1, Len(group))
              \o ConcatTails(deliveries, limit, Tail(order))

RECURSIVE ConcatHeads(_, _, _)
ConcatHeads(deliveries, limit, order) ==
  IF order = <<>> THEN <<>>
  ELSE LET group == RepoGroup(deliveries, Head(order))
           count == IF limit > Len(group) THEN Len(group) ELSE limit
       IN  SubSeq(group, 1, count) \o ConcatHeads(deliveries, limit, Tail(order))

\* applyHeadLimit without its closing ApplySort.
applyHeadLimitUnsorted(deliveries, limit, sortField, ascending, order) ==
  IF limit <= 0 THEN deliveries
  ELSE ConcatHeads(deliveries, limit, order)

applyHeadLimit(deliveries, limit, sortField, ascending, order) ==
  IF limit <= 0 THEN deliveries
  ELSE ApplySort(ConcatHeads(deliveries, limit, order), sortField, ascending)

(***************************************************************************)
(* internal/config: ParseDateRange.  A --since/--until flag value is       *)
(* empty, a well-formed date (its day number) or malformed.  Day d spans   *)
(* the instants 2d (00:00:00) to 2d+1 (23:59:59.999999999).                *)
(***************************************************************************)
DateEmpty == [kind |-> "empty", day |-> 0]
DateMalformed == [kind |-> "malformed", day |-> 0]
DateOf(d) == [kind |-> "date", day |-> d]

ParseDateRange(sinceStr, untilStr) ==
  IF sinceStr.kind = "malformed"
  THEN [since |-> NoTime, until |-> NoTime, err |-> "invalid --since format"]
  ELSE IF untilStr.kind = "malformed"
  THEN [since |-> NoTime, until |-> NoTime, err |-> "invalid --until format"]
  ELSE [since |-> IF sinceStr.kind = "empty" THEN NoTime ELSE 2 * sinceStr.day,
        until |-> IF untilStr.kind = "empty" THEN NoTime ELSE 2 * untilStr.day + 1,
        err |-> "nil"]

\* A Validate whose --repo check does not look at the part after the slash.
ValidateRepoSecondPartUnchecked(c) ==
  IF c.Org = StrEmpty /\ c.Repo = StrEmpty
  THEN "either --org or --repo must be specified"
  ELSE IF c.Org # StrEmpty /\ c.Repo # StrEmpty
  THEN "cannot specify both --org and --repo"
  ELSE IF c.Repo # StrEmpty
          /\ LET parts == Split(c.Repo, Slash)
             IN  Len(parts) # 2 \/ parts[1] = StrEmpty
  THEN "--repo must be in format OWNER/REPO"
  ELSE IF c.Since # NoTime /\ c.Until # NoTime /\ c.Since > c.Until
  THEN "--since must be before --until"
  ELSE IF c.Head < 0
  THEN "--head must be a non-negative integer"
  ELSE IF c.SortBy # StrEmpty /\ Len(Split(c.SortBy, Colon)) > 2
  THEN "--sort format should be 'field' or 'field:order'"
  ELSE IF c.SortBy # StrEmpty
          /\ Split(c.SortBy, Colon)[1]
               \notin {StrRepository, StrTimestamp, StrCode, StrEvent}
  THEN "--sort field must be one of: repository, timestamp, code, event"
  ELSE IF c.SortBy # StrEmpty
          /\ Len(Split(c.SortBy, Colon)) = 2
          /\ Split(c.SortBy, Colon)[2] \notin {StrAsc, StrDesc}
  THEN "--sort order must be 'asc' or 'desc'"
  ELSE "nil"

\* Config.Validate: "nil" or the error.
Validate(c) ==
  IF c.Org = StrEmpty /\ c.Repo = StrEmpty
  THEN "either --org or --repo must be specified"
  ELSE IF c.Org # StrEmpty /\ c.Repo # StrEmpty
  THEN "cannot specify both --org and --repo"
  ELSE IF c.Repo # StrEmpty
          /\ LET parts == Split(c.Repo, Slash)
             IN  Len(parts) # 2 \/ parts[1] = StrEmpty \/ parts[2] = StrEmpty
  THEN "--repo must be in format OWNER/REPO"
  ELSE IF c.Since # NoTime /\ c.Until # NoTime /\ c.Since > c.Until
  THEN "--since must be before --until"
  ELSE IF c.Head < 0
  THEN "--head must be a non-negative integer"
  ELSE IF c.SortBy # StrEmpty /\ Len(Split(c.SortBy, Colon)) > 2
  THEN "--sort format should be 'field' or 'field:order'"
  ELSE IF c.SortBy # StrEmpty
          /\ Split(c.SortBy, Colon)[1]
               \notin {StrRepository, StrTimestamp, StrCode, StrEvent}
  THEN "--sort field must be one of: repository, timestamp, code, event"
  ELSE IF c.SortBy # StrEmpty
          /\ Len(Split(c.SortBy, Colon)) = 2
          /\ Split(c.SortBy, Colon)[2] \notin {StrAsc, StrDesc}
  THEN "--sort order must be 'asc' or 'desc'"
  ELSE "nil"

(***************************************************************************)
(* The remote API: what the calls of one run may answer.                   *)
(***************************************************************************)
RepoNames == << <<97, 47, 120>>, <<97, 47, 121>>, <<98, 47, 120>>, <<98, 47, 122>> >>
OrgName == <<97>>
EventPush == <<112, 117, 115, 104>>
EventIssues == <<105, 115, 115, 117, 101, 115>>
\* The --filter pattern "sl"; hook and delivery URLs "SL.x" and "ci.y".
PatternSl == <<115, 108>>
\* The --filter pattern ".", which both hook URLs contain.
PatternDot == <<46>>
UrlSlack == <<83, 76, 46, 120>>
UrlCi == <<99, 105, 46, 121>>

\* Hook as decoded from the API: its id and config.url.
Hook1 == [ID |-> 1, ConfigURL |-> UrlSlack]
Hook2 == [ID |-> 2, ConfigURL |-> UrlCi]
HookIDs == {1, 2}

\* Answers of ListRepoWebhooks' request.
HooksResponses ==
  { [err |-> TRUE, hooks |-> <<>>],
    [err |-> FALSE, hooks |-> <<>>],
    [err |-> FALSE, hooks |-> <<Hook1, Hook2>>] }

\* A Delivery as json.Unmarshal leaves it after a delivery-list request: the
\* list endpoint sends no url, and Repository and HookID are not in the JSON.
RawDelivery(id, at, code, event) ==
  [ID |-> id, DeliveredAt |-> at, StatusCode |-> code, Event |-> event,
   URL |-> StrEmpty, Repository |-> StrEmpty, HookID |-> 0]

\* Answers of the delivery-list request for a hook.
DeliveriesResponses(hookID) ==
  IF hookID = 1
  THEN { [err |-> TRUE, deliveries |-> <<>>],
         [err |-> FALSE, deliveries |-> <<RawDelivery(11, 3, 500, EventPush)>>] }
  ELSE { [err |-> TRUE, deliveries |-> <<>>],
         [err |-> FALSE, deliveries |-> <<RawDelivery(21, 4, 0, EventIssues),
                                          RawDelivery(22, 2, 200, EventPush)>>] }

\* Answers of the delivery-detail request: an error, or the detail's url.
DetailResponses ==
  { [err |-> TRUE, URL |-> StrEmpty],
    [err |-> FALSE, URL |-> UrlSlack],
    [err |-> FALSE, URL |-> UrlCi] }

(***************************************************************************)
(* internal/github: ListRepoHookDeliveries, given the request's answer.    *)
(***************************************************************************)
ListRepoHookDeliveries(repo, hookID, resp) ==
  IF resp.err THEN [err |-> TRUE, deliveries |-> <<>>]
  ELSE [err |-> FALSE,
        deliveries |-> [i \in 1..Len(resp.deliveries) |->
                          [resp.deliveries[i] EXCEPT !.Repository = repo,
                                                     !.HookID = hookID]]]

(***************************************************************************)
(* cmd/root.go: processRepository, given the answers of its requests.      *)
(* Result: deliveries, err, the hooks whose deliveries were listed and the *)
(* hooks warned about.                                                     *)
(***************************************************************************)
\* A loop over the hooks with break in the place of continue: the hooks after
\* one whose deliveries could not be listed are not visited.
RECURSIVE ForEachHookBreak(_, _, _, _)
ForEachHookBreak(repo, hooks, delivResp, filter) ==
  IF hooks = <<>>
  THEN [deliveries |-> <<>>, listed |-> <<>>, warned |-> <<>>]
  ELSE LET hook == Head(hooks)
       IN  IF filter # StrEmpty /\ ~MatchesFilter(hook, filter)
           THEN ForEachHookBreak(repo, Tail(hooks), delivResp, filter)
           ELSE LET r == ListRepoHookDeliveries(repo, hook.ID, delivResp[hook.ID])
                    rest == ForEachHookBreak(repo, Tail(hooks), delivResp, filter)
                IN  IF r.err
                    THEN [deliveries |-> <<>>, listed |-> <<hook.ID>>,
                          warned |-> <<hook.ID>>]
                    ELSE [rest EXCEPT
                            !.listed = <<hook.ID>> \o @,
                            !.deliveries =
                               [i \in 1..Len(r.deliveries) |->
                                  [r.deliveries[i] EXCEPT !.URL = GetTargetURL(hook)]]
                               \o @]

RECURSIVE ForEachHook(_, _, _, _)
ForEachHook(repo, hooks, delivResp, filter) ==
  IF hooks = <<>>
  THEN [deliveries |-> <<>>, listed |-> <<>>, warned |-> <<>>]
  ELSE LET hook == Head(hooks)
           rest == ForEachHook(repo, Tail(hooks), delivResp, filter)
       IN  IF filter # StrEmpty /\ ~MatchesFilter(hook, filter)
           THEN rest
           ELSE LET r == ListRepoHookDeliveries(repo, hook.ID, delivResp[hook.ID])
                IN  IF r.err
                    THEN [rest EXCEPT !.listed = <<hook.ID>> \o @,
                                      !.warned = <<hook.ID>> \o @]
                    ELSE [rest EXCEPT
                            !.listed = <<hook.ID>> \o @,
                            !.deliveries =
                               [i \in 1..Len(r.deliveries) |->
                                  [r.deliveries[i] EXCEPT !.URL = GetTargetURL(hook)]]
                               \o @]

processRepository(repo, hooksResp, delivResp, filter) ==
  IF hooksResp.err
  THEN [deliveries |-> <<>>, err |-> TRUE, listed |-> <<>>, warned |-> <<>>]
  ELSE IF Len(hooksResp.hooks) = 0
  THEN [deliveries |-> <<>>, err |-> FALSE, listed |-> <<>>, warned |-> <<>>]
  ELSE LET r == ForEachHook(repo, hooksResp.hooks, delivResp, filter)
       IN  [deliveries |-> r.deliveries, err |-> FALSE,
            listed |-> r.listed, warned |-> r.warned]

\* The answers processRepository can get for one repository.  The answer for
\* a hook that is not listed is never requested: it is fixed to the error.
NotRequested == [err |-> TRUE, deliveries |-> <<>>]

Requested(hooksResp, hookID, filter) ==
  /\ ~hooksResp.err
  /\ \E i \in 1..Len(hooksResp.hooks) :
        /\ hooksResp.hooks[i].ID = hookID
        /\ (filter = StrEmpty \/ MatchesFilter(hooksResp.hooks[i], filter))

RepoAnswers(filter) ==
  { a \in [hooksResp : HooksResponses,
           delivResp : [HookIDs -> UNION {DeliveriesResponses(h) : h \in HookIDs}]] :
      \A h \in HookIDs :
         IF Requested(a.hooksResp, h, filter)
         THEN a.delivResp[h] \in DeliveriesResponses(h)
         ELSE a.delivResp[h] = NotRequested }

(***************************************************************************)
(* The inputs of a run: the flag values bound in init() and the two date   *)
(* flags read in run.  cfg.Since and cfg.Until are nil until run sets them.*)
(***************************************************************************)
SortFields == {StrRepository, StrTimestamp, StrCode, StrEvent}

\* --sort values that Validate accepts: "", field, field:asc, field:desc.
SortFlags ==
  {StrEmpty} \cup SortFields
    \cup {f \o <<Colon>> \o o : f \in SortFields, o \in {StrAsc, StrDesc}}

BaseConfig ==
  [Org |-> OrgName, Repo |-> StrEmpty, Filter |-> StrEmpty, Since |-> NoTime,
   Until |-> NoTime, JSONOutput |-> FALSE, Failed |-> FALSE, Head |-> 0,
   SortBy |-> StrEmpty]

NoDates == [since |-> DateEmpty, until |-> DateEmpty]

\* Runs on an organization: each filter with and without --failed and a head
\* limit, a date range, and some sorts other than the default.
OrgInputs ==
  { [cfg |-> [BaseConfig EXCEPT !.Filter = f, !.Failed = b, !.Head = h],
     flags |-> NoDates] :
      f \in {StrEmpty, PatternSl}, b \in BOOLEAN, h \in {0, MaxHead} }
  \cup
  { [cfg |-> [BaseConfig EXCEPT !.Failed = b, !.Head = h],
     flags |-> [since |-> DateOf(1), until |-> DateOf(1)]] :
      b \in BOOLEAN, h \in {0, MaxHead} }
  \cup
  { [cfg |-> [BaseConfig EXCEPT !.SortBy = s, !.Head = h], flags |-> NoDates] :
      s \in {StrRepository, StrCode \o <<Colon>> \o StrAsc,
             StrEvent \o <<Colon>> \o StrDesc, StrTimestamp \o <<Colon>> \o StrAsc},
      h \in {0, MaxHead} }

\* Runs on one repository.
RepoInputs ==
  { [cfg |-> [BaseConfig EXCEPT !.Org = StrEmpty, !.Repo = RepoNames[1],
                                !.Filter = f, !.Head = h, !.JSONOutput = j],
     flags |-> NoDates] :
      f \in {StrEmpty, PatternSl}, h \in 0..MaxHead, j \in BOOLEAN }
  \cup
  { [cfg |-> [BaseConfig EXCEPT !.Org = StrEmpty, !.Repo = RepoNames[1],
                                !.Filter = PatternDot, !.Failed = b],
     flags |-> d] :
      b \in BOOLEAN, d \in {NoDates, [since |-> DateOf(1), until |-> DateOf(1)]} }

\* Inputs that ParseDateRange or Validate rejects.
RejectedInputs ==
  { [cfg |-> BaseConfig, flags |-> [since |-> DateMalformed, until |-> DateEmpty]],
    [cfg |-> BaseConfig, flags |-> [since |-> DateEmpty, until |-> DateMalformed]],
    [cfg |-> BaseConfig, flags |-> [since |-> DateOf(2), until |-> DateOf(1)]],
    [cfg |-> [BaseConfig EXCEPT !.Org = StrEmpty], flags |-> NoDates],
    [cfg |-> [BaseConfig EXCEPT !.Repo = RepoNames[1]], flags |-> NoDates],
    [cfg |-> [BaseConfig EXCEPT !.Org = StrEmpty, !.Repo = OrgName], flags |-> NoDates],
    [cfg |-> [BaseConfig EXCEPT !.Head = -1], flags |-> NoDates],
    [cfg |-> [BaseConfig EXCEPT !.SortBy = OrgName], flags |-> NoDates],
    [cfg |-> [BaseConfig EXCEPT !.SortBy = StrCode \o <<Colon>> \o OrgName],
     flags |-> NoDates],
    [cfg |-> [BaseConfig EXCEPT !.SortBy = StrCode \o <<Colon, Colon>>],
     flags |-> NoDates] }

Inputs == OrgInputs \cup RepoInputs \cup RejectedInputs

\* Answers of ListOrgRepos: an error, or the organization's repositories.
OrgReposResponses ==
  { [err |-> TRUE, repos |-> <<>>] }
    \cup { [err |-> FALSE, repos |-> SubSeq(RepoNames, 1, n)] : n \in 0..MaxRepos }

(***************************************************************************)
(* State.                                                                  *)
(***************************************************************************)
VARIABLES
  cfg,                \* the package-level config.Config
  flags,              \* the --since and --until flag values
  pc,                 \* where run is
  err,                \* what run returned: "none" while it runs
  stdout,             \* what the formatters were handed, in order
  stderr,             \* the warnings written, as a bag
  stages,             \* the filter/sort stages run has executed, in order
  repos,              \* processOrganization: repos
  dNumWorkers,        \* processOrganization: workers started
  dJobs,              \* processOrganization: the jobs channel's buffer
  dSent,              \* processOrganization: jobs sent so far
  dClosed,            \* processOrganization: jobs is closed
  dResults,           \* processOrganization: the results channel's buffer
  dRunning,           \* repositories whose processRepository call is in flight
  dExited,            \* discovery workers that have returned
  dCollected,         \* processOrganization: i of the collecting loop
  allDeliveries,      \* processOrganization / run: allDeliveries
  calls,              \* bag of repositories processRepository was called with
  orgRet,             \* error returned by processOrganization: "none" before
  fetched,            \* each processRepository call: its answers and its result
  filteredDeliveries, \* run: filteredDeliveries
  eInput,             \* fetchDeliveryDetails: deliveries
  eNumWorkers,        \* fetchDeliveryDetails: workers started
  eJobs,              \* fetchDeliveryDetails: the jobs channel's buffer
  eSent,              \* fetchDeliveryDetails: jobs sent so far
  eClosed,            \* fetchDeliveryDetails: jobs is closed
  eResults,           \* fetchDeliveryDetails: the results channel's buffer
  eErrors,            \* fetchDeliveryDetails: the errors channel's buffer
  eRunning,           \* deliveries whose detail request is in flight
  eExited,            \* enrichment workers that have returned
  eCollected,         \* fetchDeliveryDetails: i of the collecting loop
  detailedDeliveries, \* fetchDeliveryDetails: detailedDeliveries
  detailCalls,        \* bag of deliveries GetRepoHookDeliveryDetail was called for
  enrichRet,          \* error returned by fetchDeliveryDetails: "none" before
  details,            \* what each detail request answered
  sIn,                \* ordering alone: the slice to sort
  sFlag,              \* ordering alone: the --sort value
  sHead,              \* ordering alone: the --head value
  sSorted,            \* ordering alone: the slice after ApplySort
  sAgain,             \* ordering alone: the sorted slice after ApplySort again
  sLimited,           \* ordering alone: the sorted slice after applyHeadLimit
  sPc,                \* ordering alone: which of these has been computed
  pKind,              \* a pool by counts: "discovery" or "enrichment"
  pN,                 \* a pool by counts: items (len(repos), len(deliveries))
  pNumWorkers,        \* a pool by counts: numWorkers
  pSent,              \* a pool by counts: jobs sent so far
  pQueued,            \* a pool by counts: jobs in the jobs channel
  pClosed,            \* a pool by counts: jobs is closed
  pRunning,           \* a pool by counts: fetches in flight
  pOk,                \* a pool by counts: successes waiting in a channel
  pFail,              \* a pool by counts: failures waiting in a channel
  pExited,            \* a pool by counts: workers that have returned
  pCollected,         \* a pool by counts: i of the collecting loop
  pMerged,            \* a pool by counts: successes collected
  pWarned,            \* a pool by counts: warnings written
  pPc,                \* a pool by counts: where the pool call is
  fCfg,               \* filters in any order: the configuration
  fIn,                \* filters in any order: the records before any filter
  fOrder,             \* filters in any order: the order the three filters are applied in
  fOut,               \* filters in any order: the records after the filters applied so far
  fDone,              \* filters in any order: number of filters applied
  tIn,                \* FormatTable: deliveries
  tOut,               \* FormatTable: what was written, none before
  tPc                 \* FormatTable: where the call is

runVars == <<cfg, flags, pc, err, stdout, stderr, stages>>
orgVars == <<repos, dNumWorkers, dJobs, dSent, dClosed, dResults, dRunning,
             dExited, dCollected, allDeliveries, calls, orgRet, fetched>>
enrichVars == <<eInput, eNumWorkers, eJobs, eSent, eClosed, eResults, eErrors,
                eRunning, eExited, eCollected, detailedDeliveries, detailCalls,
                enrichRet, details>>
sortVars == <<sIn, sFlag, sHead, sSorted, sAgain, sLimited, sPc>>
poolVars == <<pKind, pN, pNumWorkers, pSent, pQueued, pClosed, pRunning, pOk, pFail,
              pExited, pCollected, pMerged, pWarned, pPc>>
filterVars == <<fCfg, fIn, fOrder, fOut, fDone>>
tableVars == <<tIn, tOut, tPc>>
auxVars == <<sortVars, poolVars, filterVars, tableVars>>
vars == <<runVars, orgVars, filteredDeliveries, enrichVars, auxVars>>

One(x) == SetToBag({x})

Warning(kind, repo, hook, id) == [kind |-> kind, repo |-> repo, hook |-> hook, id |-> id]

\* The warnings processRepository writes for the hooks it could not list.
RECURSIVE HookWarnings(_, _)
HookWarnings(repo, warned) ==
  IF warned = <<>> THEN EmptyBag
  ELSE One(Warning("hook", repo, Head(warned), 0)) (+) HookWarnings(repo, Tail(warned))

\* run has not started.
RunIdle ==
  /\ pc = "start"
  /\ err = "none"
  /\ stdout = <<>>
  /\ stderr = EmptyBag
  /\ stages = <<>>
  /\ repos = <<>>
  /\ dNumWorkers = 0
  /\ dJobs = <<>>
  /\ dSent = 0
  /\ dClosed = FALSE
  /\ dResults = <<>>
  /\ dRunning = EmptyBag
  /\ dExited = 0
  /\ dCollected = 0
  /\ allDeliveries = <<>>
  /\ calls = EmptyBag
  /\ orgRet = "none"
  /\ fetched = {}
  /\ filteredDeliveries = <<>>
  /\ eInput = <<>>
  /\ eNumWorkers = 0
  /\ eJobs = <<>>
  /\ eSent = 0
  /\ eClosed = FALSE
  /\ eResults = <<>>
  /\ eErrors = <<>>
  /\ eRunning = EmptyBag
  /\ eExited = 0
  /\ eCollected = 0
  /\ detailedDeliveries = <<>>
  /\ detailCalls = EmptyBag
  /\ enrichRet = "none"
  /\ details = {}

\* Nothing is being sorted on its own.
SortIdle ==
  /\ sIn = <<>>
  /\ sFlag = StrEmpty
  /\ sHead = 0
  /\ sSorted = <<>>
  /\ sAgain = <<>>
  /\ sLimited = <<>>
  /\ sPc = "off"

\* No filters are applied in an order of their own.
FilterIdle ==
  /\ fCfg = BaseConfig
  /\ fIn = <<>>
  /\ fOrder = <<>>
  /\ fOut = <<>>
  /\ fDone = 0

\* FormatTable is not called on its own.
TableIdle ==
  /\ tIn = <<>>
  /\ tOut = <<>>
  /\ tPc = "off"

\* No pool is followed by counts.
PoolIdle ==
  /\ pKind = "off"
  /\ pN = 0
  /\ pNumWorkers = 0
  /\ pSent = 0
  /\ pQueued = 0
  /\ pClosed = FALSE
  /\ pRunning = 0
  /\ pOk = 0
  /\ pFail = 0
  /\ pExited = 0
  /\ pCollected = 0
  /\ pMerged = 0
  /\ pWarned = 0
  /\ pPc = "off"

Init ==
  /\ \E in \in Inputs : cfg = in.cfg /\ flags = in.flags
  /\ RunIdle
  /\ SortIdle
  /\ PoolIdle
  /\ FilterIdle
  /\ TableIdle

(***************************************************************************)
(* run, up to the choice of the target.                                    *)
(***************************************************************************)
Return(e) == pc' = "done" /\ err' = e

\* run: ParseDateRange and the assignment of cfg.Since and cfg.Until.
RunParseDates ==
  /\ pc = "start"
  /\ LET r == ParseDateRange(flags.since, flags.until)
     IN  IF r.err # "nil"
         THEN Return(r.err) /\ cfg' = cfg
         ELSE /\ cfg' = [cfg EXCEPT !.Since = r.since, !.Until = r.until]
              /\ pc' = "validate"
              /\ err' = err
  /\ UNCHANGED <<flags, stdout, stderr, stages, orgVars, filteredDeliveries, enrichVars>>
  /\ UNCHANGED auxVars

\* A run that calls cfg.Validate() and drops what it returns.
RunValidateIgnored ==
  /\ pc = "validate"
  /\ pc' = "client"
  /\ UNCHANGED <<cfg, flags, err, stdout, stderr, stages, orgVars, filteredDeliveries,
                 enrichVars>>
  /\ UNCHANGED auxVars

\* run: cfg.Validate()
RunValidate ==
  /\ pc = "validate"
  /\ IF Validate(cfg) # "nil"
     THEN Return("validation error")
     ELSE pc' = "client" /\ err' = err
  /\ UNCHANGED <<cfg, flags, stdout, stderr, stages, orgVars, filteredDeliveries,
                 enrichVars>>
  /\ UNCHANGED auxVars

\* run: github.NewClient(), which fails without authentication.
RunNewClient ==
  /\ pc = "client"
  /\ \E ok \in BOOLEAN :
        IF ok
        THEN /\ pc' = IF cfg.Org # StrEmpty THEN "org" ELSE "repo"
             /\ err' = err
        ELSE Return("failed to create GitHub client")
  /\ UNCHANGED <<cfg, flags, stdout, stderr, stages, orgVars, filteredDeliveries,
                 enrichVars>>
  /\ UNCHANGED auxVars

(***************************************************************************)
(* processOrganization                                                     *)
(***************************************************************************)
maxConcurrentRepos == 10

\* As many workers as items, whatever maxConcurrent is.
NumWorkersUncapped(maxConcurrent, n) == n

\* numWorkers := maxConcurrent; if len(...) < numWorkers { numWorkers = len(...) }
NumWorkers(maxConcurrent, n) == IF n < maxConcurrent THEN n ELSE maxConcurrent

\* processOrganization whose caller drops the error of ListOrgRepos and goes on
\* with no deliveries.
OrgListReposIgnoreError ==
  /\ pc = "org"
  /\ \E resp \in OrgReposResponses :
        IF resp.err
        THEN /\ pc' = "filterTime"
             /\ orgRet' = "failed to list organization repositories"
             /\ UNCHANGED <<err, repos, dNumWorkers>>
        ELSE IF Len(resp.repos) = 0
        THEN /\ pc' = "filterTime"
             /\ orgRet' = "nil"
             /\ UNCHANGED <<err, repos, dNumWorkers>>
        ELSE /\ repos' = resp.repos
             /\ dNumWorkers' = NumWorkers(maxConcurrentRepos, Len(resp.repos))
             /\ pc' = "dSend"
             /\ UNCHANGED <<err, orgRet>>
  /\ UNCHANGED <<cfg, flags, stdout, stderr, stages, dJobs, dSent, dClosed, dResults,
                 dRunning, dExited, dCollected, allDeliveries, calls, fetched,
                 filteredDeliveries, enrichVars>>
  /\ UNCHANGED auxVars

\* ListOrgRepos, the early returns, the channels and the start of the workers.
OrgListRepos ==
  /\ pc = "org"
  /\ \E resp \in OrgReposResponses :
        IF resp.err
        THEN /\ Return("failed to list organization repositories")
             /\ orgRet' = "failed to list organization repositories"
             /\ UNCHANGED <<repos, dNumWorkers>>
        ELSE IF Len(resp.repos) = 0
        THEN /\ pc' = "filterTime"
             /\ orgRet' = "nil"
             /\ UNCHANGED <<err, repos, dNumWorkers>>
        ELSE /\ repos' = resp.repos
             /\ dNumWorkers' = NumWorkers(maxConcurrentRepos, Len(resp.repos))
             /\ pc' = "dSend"
             /\ UNCHANGED <<err, orgRet>>
  /\ UNCHANGED <<cfg, flags, stdout, stderr, stages, dJobs, dSent, dClosed, dResults,
                 dRunning, dExited, dCollected, allDeliveries, calls, fetched,
                 filteredDeliveries, enrichVars>>
  /\ UNCHANGED auxVars

\* jobs <- repo
OrgSendJob ==
  /\ pc = "dSend"
  /\ dSent < Len(repos)
  /\ Len(dJobs) < Len(repos)
  /\ dJobs' = Append(dJobs, repos[dSent + 1])
  /\ dSent' = dSent + 1
  /\ UNCHANGED <<runVars, repos, dNumWorkers, dClosed, dResults, dRunning, dExited,
                 dCollected, allDeliveries, calls, orgRet, fetched,
                 filteredDeliveries, enrichVars>>
  /\ UNCHANGED auxVars

\* close(jobs)
OrgCloseJobs ==
  /\ pc = "dSend"
  /\ dSent = Len(repos)
  /\ dClosed' = TRUE
  /\ pc' = "dCollect"
  /\ UNCHANGED <<cfg, flags, err, stdout, stderr, stages, repos, dNumWorkers, dJobs,
                 dSent, dResults, dRunning, dExited, dCollected, allDeliveries, calls,
                 orgRet, fetched, filteredDeliveries, enrichVars>>
  /\ UNCHANGED auxVars

\* Workers that are at "for repo := range jobs".
OrgIdle == dNumWorkers - BagCardinality(dRunning) - dExited

\* A worker receives a repository from jobs and calls processRepository.
OrgWorkerReceive ==
  /\ OrgIdle > 0
  /\ dJobs # <<>>
  /\ dJobs' = Tail(dJobs)
  /\ dRunning' = dRunning (+) One(Head(dJobs))
  /\ calls' = calls (+) One(Head(dJobs))
  /\ UNCHANGED <<runVars, repos, dNumWorkers, dSent, dClosed, dResults, dExited,
                 dCollected, allDeliveries, orgRet, fetched, filteredDeliveries,
                 enrichVars>>
  /\ UNCHANGED auxVars

\* The repoResult a worker sends for repo.
RepoResult(repo, r) == [repo |-> repo, deliveries |-> r.deliveries, err |-> r.err]

\* A worker that, having processed its repository, writes cfg.Filter.
OrgWorkerProcessClearsFilter ==
  /\ Len(dResults) < Len(repos)
  /\ \E repo \in BagToSet(dRunning), a \in RepoAnswers(cfg.Filter) :
        LET r == processRepository(repo, a.hooksResp, a.delivResp, cfg.Filter)
        IN  /\ dResults' = Append(dResults, RepoResult(repo, r))
            /\ dRunning' = dRunning (-) One(repo)
            /\ stderr' = stderr (+) HookWarnings(repo, r.warned)
            /\ fetched' = fetched \cup {[repo |-> repo, answer |-> a, result |-> r]}
  /\ cfg' = [cfg EXCEPT !.Filter = StrEmpty]
  /\ UNCHANGED <<flags, pc, err, stdout, stages, repos, dNumWorkers, dJobs,
                 dSent, dClosed, dExited, dCollected, allDeliveries, calls, orgRet,
                 filteredDeliveries, enrichVars>>
  /\ UNCHANGED auxVars

\* A worker's processRepository call returns and it sends the result.
OrgWorkerProcess ==
  /\ Len(dResults) < Len(repos)
  /\ \E repo \in BagToSet(dRunning), a \in RepoAnswers(cfg.Filter) :
        LET r == processRepository(repo, a.hooksResp, a.delivResp, cfg.Filter)
        IN  /\ dResults' = Append(dResults, RepoResult(repo, r))
            /\ dRunning' = dRunning (-) One(repo)
            /\ stderr' = stderr (+) HookWarnings(repo, r.warned)
            /\ fetched' = fetched \cup {[repo |-> repo, answer |-> a, result |-> r]}
  /\ UNCHANGED <<cfg, flags, pc, err, stdout, stages, repos, dNumWorkers, dJobs,
                 dSent, dClosed, dExited, dCollected, allDeliveries, calls, orgRet,
                 filteredDeliveries, enrichVars>>
  /\ UNCHANGED auxVars

\* A worker finds jobs closed and drained, and returns.
OrgWorkerExit ==
  /\ OrgIdle > 0
  /\ dJobs = <<>>
  /\ dClosed
  /\ dExited' = dExited + 1
  /\ UNCHANGED <<runVars, repos, dNumWorkers, dJobs, dSent, dClosed, dResults,
                 dRunning, dCollected, allDeliveries, calls, orgRet, fetched,
                 filteredDeliveries, enrichVars>>
  /\ UNCHANGED auxVars

\* A collector that keeps only the deliveries of the result it has in hand.
AppendAllOverwrite(all, deliveries) == deliveries

\* allDeliveries = append(allDeliveries, result.deliveries...)
AppendAll(all, deliveries) == all \o deliveries

\* A collecting loop that returns the error of the first failed repository.
OrgCollectAbort ==
  /\ pc = "dCollect"
  /\ dCollected < Len(repos)
  /\ dResults # <<>>
  /\ LET result == Head(dResults)
     IN  IF result.err
         THEN /\ orgRet' = "failed to process repository"
              /\ Return("failed to process repository")
              /\ allDeliveries' = allDeliveries
         ELSE /\ allDeliveries' = AppendAll(allDeliveries, result.deliveries)
              /\ UNCHANGED <<pc, err, orgRet>>
  /\ dResults' = Tail(dResults)
  /\ dCollected' = dCollected + 1
  /\ UNCHANGED <<cfg, flags, stdout, stderr, stages, repos, dNumWorkers, dJobs,
                 dSent, dClosed, dRunning, dExited, calls, fetched,
                 filteredDeliveries, enrichVars>>
  /\ UNCHANGED auxVars

\* One round of the collecting loop, were a failed result to empty the slice.
OrgCollectResetOnError ==
  /\ pc = "dCollect"
  /\ dCollected < Len(repos)
  /\ dResults # <<>>
  /\ LET result == Head(dResults)
     IN  IF result.err
         THEN /\ stderr' = stderr (+) One(Warning("repo", result.repo, 0, 0))
              /\ allDeliveries' = <<>>
         ELSE /\ allDeliveries' = AppendAll(allDeliveries, result.deliveries)
              /\ stderr' = stderr
  /\ dResults' = Tail(dResults)
  /\ dCollected' = dCollected + 1
  /\ UNCHANGED <<cfg, flags, pc, err, stdout, stages, repos, dNumWorkers, dJobs,
                 dSent, dClosed, dRunning, dExited, calls, orgRet, fetched,
                 filteredDeliveries, enrichVars>>
  /\ UNCHANGED auxVars

\* One round of the collecting loop: result := <-results.
OrgCollect ==
  /\ pc = "dCollect"
  /\ dCollected < Len(repos)
  /\ dResults # <<>>
  /\ LET result == Head(dResults)
     IN  IF result.err
         THEN /\ stderr' = stderr (+) One(Warning("repo", result.repo, 0, 0))
              /\ allDeliveries' = allDeliveries
         ELSE /\ allDeliveries' = AppendAll(allDeliveries, result.deliveries)
              /\ stderr' = stderr
  /\ dResults' = Tail(dResults)
  /\ dCollected' = dCollected + 1
  /\ UNCHANGED <<cfg, flags, pc, err, stdout, stages, repos, dNumWorkers, dJobs,
                 dSent, dClosed, dRunning, dExited, calls, orgRet, fetched,
                 filteredDeliveries, enrichVars>>
  /\ UNCHANGED auxVars

\* The collecting loop is over: return allDeliveries, nil.
OrgReturn ==
  /\ pc = "dCollect"
  /\ dCollected = Len(repos)
  /\ orgRet' = "nil"
  /\ pc' = "filterTime"
  /\ UNCHANGED <<cfg, flags, err, stdout, stderr, stages, repos, dNumWorkers, dJobs,
                 dSent, dClosed, dResults, dRunning, dExited, dCollected,
                 allDeliveries, calls, fetched, filteredDeliveries, enrichVars>>
  /\ UNCHANGED auxVars

\* run on one repository: processRepository(client, cfg.Repo).
RunProcessRepository ==
  /\ pc = "repo"
  /\ \E a \in RepoAnswers(cfg.Filter) :
        LET r == processRepository(cfg.Repo, a.hooksResp, a.delivResp, cfg.Filter)
        IN  /\ calls' = calls (+) One(cfg.Repo)
            /\ stderr' = stderr (+) HookWarnings(cfg.Repo, r.warned)
            /\ fetched' = fetched \cup {[repo |-> cfg.Repo, answer |-> a, result |-> r]}
            /\ IF r.err
               THEN Return("failed to list webhooks") /\ allDeliveries' = allDeliveries
               ELSE /\ allDeliveries' = r.deliveries
                    /\ pc' = "filterTime"
                    /\ err' = err
  /\ UNCHANGED <<cfg, flags, stdout, stages, repos, dNumWorkers, dJobs, dSent,
                 dClosed, dResults, dRunning, dExited, dCollected, orgRet,
                 filteredDeliveries, enrichVars>>
  /\ UNCHANGED auxVars

(***************************************************************************)
(* run: the date range filter and the --failed filter.                     *)
(***************************************************************************)
\* run: the loop that keeps the records whose DeliveredAt is in the date range.
FilterByTime(deliveries, c) ==
  SelectSeq(deliveries, LAMBDA d : InRange(d.DeliveredAt, c.Since, c.Until))

\* A --failed filter whose loop ends at the first record that is not failed.
RECURSIVE FilterByStatusUntilPass(_, _)
FilterByStatusUntilPass(deliveries, c) ==
  IF ~c.Failed THEN deliveries
  ELSE IF deliveries = <<>> THEN <<>>
  ELSE IF IsFailed(Head(deliveries).StatusCode)
  THEN <<Head(deliveries)>> \o FilterByStatusUntilPass(Tail(deliveries), c)
  ELSE <<>>

\* run: with --failed, the loop that keeps the failed records.
FilterByStatus(deliveries, c) ==
  IF c.Failed
  THEN SelectSeq(deliveries, LAMBDA d : IsFailed(d.StatusCode))
  ELSE deliveries

\* run: with --filter, the loop that keeps the records whose URL matches.
FilterByURL(deliveries, c) ==
  IF c.Filter # StrEmpty
  THEN SelectSeq(deliveries, LAMBDA d : MatchesPattern(d.URL, c.Filter))
  ELSE deliveries

\* A date range filter that appends the records in range to allDeliveries
\* instead of a slice of its own.
RunFilterTimeAppends ==
  /\ pc = "filterTime"
  /\ filteredDeliveries' =
        allDeliveries \o
        SelectSeq(allDeliveries, LAMBDA d : InRange(d.DeliveredAt, cfg.Since, cfg.Until))
  /\ stages' = Append(stages, "time")
  /\ pc' = "filterFailed"
  /\ UNCHANGED <<cfg, flags, err, stdout, stderr, orgVars, enrichVars>>
  /\ UNCHANGED auxVars

RunFilterTime ==
  /\ pc = "filterTime"
  /\ filteredDeliveries' = FilterByTime(allDeliveries, cfg)
  /\ stages' = Append(stages, "time")
  /\ pc' = "filterFailed"
  /\ UNCHANGED <<cfg, flags, err, stdout, stderr, orgVars, enrichVars>>
  /\ UNCHANGED auxVars

\* A run that goes from the --failed filter to the sort, without the
\* enrichment and the URL filter.
RunFilterFailedThenSort ==
  /\ pc = "filterFailed"
  /\ IF cfg.Failed
     THEN /\ filteredDeliveries' =
                SelectSeq(filteredDeliveries, LAMBDA d : IsFailed(d.StatusCode))
          /\ stages' = Append(stages, "failed")
     ELSE UNCHANGED <<filteredDeliveries, stages>>
  /\ pc' = "sort"
  /\ UNCHANGED <<cfg, flags, err, stdout, stderr, orgVars, enrichVars>>
  /\ UNCHANGED auxVars

\* run: the --failed filter, and the test of cfg.Filter that follows it.
RunFilterFailed ==
  /\ pc = "filterFailed"
  /\ IF cfg.Failed
     THEN /\ filteredDeliveries' = FilterByStatus(filteredDeliveries, cfg)
          /\ stages' = Append(stages, "failed")
     ELSE UNCHANGED <<filteredDeliveries, stages>>
  /\ pc' = IF cfg.Filter # StrEmpty THEN "enrich" ELSE "sort"
  /\ UNCHANGED <<cfg, flags, err, stdout, stderr, orgVars, enrichVars>>
  /\ UNCHANGED auxVars

(***************************************************************************)
(* fetchDeliveryDetails                                                    *)
(***************************************************************************)
maxConcurrentDetails == 5

\* A call of fetchDeliveryDetails that is handed allDeliveries, the records
\* before the date range and --failed filters.
EnrichStartAll ==
  /\ pc = "enrich"
  /\ stages' = Append(stages, "enrich")
  /\ IF Len(allDeliveries) = 0
     THEN /\ detailedDeliveries' = allDeliveries
          /\ enrichRet' = "nil"
          /\ pc' = "filterURL"
          /\ UNCHANGED <<eInput, eNumWorkers>>
     ELSE /\ eInput' = allDeliveries
          /\ eNumWorkers' = NumWorkers(maxConcurrentDetails, Len(allDeliveries))
          /\ pc' = "eSend"
          /\ UNCHANGED <<detailedDeliveries, enrichRet>>
  /\ UNCHANGED <<cfg, flags, err, stdout, stderr, orgVars, filteredDeliveries, eJobs,
                 eSent, eClosed, eResults, eErrors, eRunning, eExited, eCollected,
                 detailCalls, details>>
  /\ UNCHANGED auxVars

\* The call, its early return, the channels and the start of the workers.
EnrichStart ==
  /\ pc = "enrich"
  /\ stages' = Append(stages, "enrich")
  /\ IF Len(filteredDeliveries) = 0
     THEN /\ detailedDeliveries' = filteredDeliveries
          /\ enrichRet' = "nil"
          /\ pc' = "filterURL"
          /\ UNCHANGED <<eInput, eNumWorkers>>
     ELSE /\ eInput' = filteredDeliveries
          /\ eNumWorkers' = NumWorkers(maxConcurrentDetails, Len(filteredDeliveries))
          /\ pc' = "eSend"
          /\ UNCHANGED <<detailedDeliveries, enrichRet>>
  /\ UNCHANGED <<cfg, flags, err, stdout, stderr, orgVars, filteredDeliveries, eJobs,
                 eSent, eClosed, eResults, eErrors, eRunning, eExited, eCollected,
                 detailCalls, details>>
  /\ UNCHANGED auxVars

\* jobs <- d
EnrichSendJob ==
  /\ pc = "eSend"
  /\ eSent < Len(eInput)
  /\ Len(eJobs) < Len(eInput)
  /\ eJobs' = Append(eJobs, eInput[eSent + 1])
  /\ eSent' = eSent + 1
  /\ UNCHANGED <<runVars, orgVars, filteredDeliveries, eInput, eNumWorkers, eClosed,
                 eResults, eErrors, eRunning, eExited, eCollected, detailedDeliveries,
                 detailCalls, enrichRet, details>>
  /\ UNCHANGED auxVars

\* close(jobs)
EnrichCloseJobs ==
  /\ pc = "eSend"
  /\ eSent = Len(eInput)
  /\ eClosed' = TRUE
  /\ pc' = "eCollect"
  /\ UNCHANGED <<cfg, flags, err, stdout, stderr, stages, orgVars, filteredDeliveries,
                 eInput, eNumWorkers, eJobs, eSent, eResults, eErrors, eRunning,
                 eExited, eCollected, detailedDeliveries, detailCalls, enrichRet,
                 details>>
  /\ UNCHANGED auxVars

\* Workers that are at "for d := range jobs".
EnrichIdle == eNumWorkers - BagCardinality(eRunning) - eExited

\* A worker receives a delivery from jobs and calls GetRepoHookDeliveryDetail.
EnrichWorkerReceive ==
  /\ EnrichIdle > 0
  /\ eJobs # <<>>
  /\ eJobs' = Tail(eJobs)
  /\ eRunning' = eRunning (+) One(Head(eJobs))
  /\ detailCalls' = detailCalls (+) One(Head(eJobs))
  /\ UNCHANGED <<runVars, orgVars, filteredDeliveries, eInput, eNumWorkers, eSent,
                 eClosed, eResults, eErrors, eExited, eCollected, detailedDeliveries,
                 enrichRet, details>>
  /\ UNCHANGED auxVars

\* A copy that keeps the URL written by processRepository.
DetailedKeepsURL(d, detail) == d

\* The copy of d a worker sends: detailed := d; detailed.URL = detail.URL
Detailed(d, detail) == [d EXCEPT !.URL = detail.URL]

\* A worker without the continue after "errors <- ...": it sends the error and
\* then the copy as well.
EnrichWorkerErrorFallsThrough ==
  /\ Len(eErrors) < Len(eInput)
  /\ Len(eResults) < Len(eInput)
  /\ \E d \in BagToSet(eRunning), detail \in DetailResponses :
        /\ detail.err
        /\ eErrors' = Append(eErrors, d.ID)
        /\ eResults' = Append(eResults, Detailed(d, detail))
        /\ eRunning' = eRunning (-) One(d)
        /\ details' = details \cup {[delivery |-> d, detail |-> detail]}
  /\ UNCHANGED <<runVars, orgVars, filteredDeliveries, eInput, eNumWorkers, eJobs,
                 eSent, eClosed, eExited, eCollected, detailedDeliveries,
                 detailCalls, enrichRet>>
  /\ UNCHANGED auxVars

\* A worker's detail request fails: it sends the error on errors.
EnrichWorkerError ==
  /\ Len(eErrors) < Len(eInput)
  /\ \E d \in BagToSet(eRunning), detail \in DetailResponses :
        /\ detail.err
        /\ eErrors' = Append(eErrors, d.ID)
        /\ eRunning' = eRunning (-) One(d)
        /\ details' = details \cup {[delivery |-> d, detail |-> detail]}
  /\ UNCHANGED <<runVars, orgVars, filteredDeliveries, eInput, eNumWorkers, eJobs,
                 eSent, eClosed, eResults, eExited, eCollected, detailedDeliveries,
                 detailCalls, enrichRet>>
  /\ UNCHANGED auxVars

\* A worker that writes the detail's url into the element of deliveries it
\* works on and sends that element.
EnrichWorkerResultInPlace ==
  /\ Len(eResults) < Len(eInput)
  /\ \E d \in BagToSet(eRunning), detail \in DetailResponses :
        /\ ~detail.err
        /\ eInput' = [i \in 1..Len(eInput) |->
                        IF eInput[i] = d THEN Detailed(d, detail) ELSE eInput[i]]
        /\ eResults' = Append(eResults, Detailed(d, detail))
        /\ eRunning' = eRunning (-) One(d)
        /\ details' = details \cup {[delivery |-> d, detail |-> detail]}
  /\ UNCHANGED <<runVars, orgVars, filteredDeliveries, eNumWorkers, eJobs,
                 eSent, eClosed, eErrors, eExited, eCollected, detailedDeliveries,
                 detailCalls, enrichRet>>
  /\ UNCHANGED auxVars

\* A worker's detail request succeeds: it sends the copy on results.
EnrichWorkerResult ==
  /\ Len(eResults) < Len(eInput)
  /\ \E d \in BagToSet(eRunning), detail \in DetailResponses :
        /\ ~detail.err
        /\ eResults' = Append(eResults, Detailed(d, detail))
        /\ eRunning' = eRunning (-) One(d)
        /\ details' = details \cup {[delivery |-> d, detail |-> detail]}
  /\ UNCHANGED <<runVars, orgVars, filteredDeliveries, eInput, eNumWorkers, eJobs,
                 eSent, eClosed, eErrors, eExited, eCollected, detailedDeliveries,
                 detailCalls, enrichRet>>
  /\ UNCHANGED auxVars

\* A worker finds jobs closed and drained, and returns.
EnrichWorkerExit ==
  /\ EnrichIdle > 0
  /\ eJobs = <<>>
  /\ eClosed
  /\ eExited' = eExited + 1
  /\ UNCHANGED <<runVars, orgVars, filteredDeliveries, eInput, eNumWorkers, eJobs,
                 eSent, eClosed, eResults, eErrors, eRunning, eCollected,
                 detailedDeliveries, detailCalls, enrichRet, details>>
  /\ UNCHANGED auxVars

\* One round of the collecting loop, case detailed := <-results.
EnrichCollectResult ==
  /\ pc = "eCollect"
  /\ eCollected < Len(eInput)
  /\ eResults # <<>>
  /\ detailedDeliveries' = Append(detailedDeliveries, Head(eResults))
  /\ eResults' = Tail(eResults)
  /\ eCollected' = eCollected + 1
  /\ UNCHANGED <<runVars, orgVars, filteredDeliveries, eInput, eNumWorkers, eJobs,
                 eSent, eClosed, eErrors, eRunning, eExited, detailCalls, enrichRet,
                 details>>
  /\ UNCHANGED auxVars

\* One round of the collecting loop, case err := <-errors.
EnrichCollectError ==
  /\ pc = "eCollect"
  /\ eCollected < Len(eInput)
  /\ eErrors # <<>>
  /\ stderr' = stderr (+) One(Warning("detail", StrEmpty, 0, Head(eErrors)))
  /\ eErrors' = Tail(eErrors)
  /\ eCollected' = eCollected + 1
  /\ UNCHANGED <<cfg, flags, pc, err, stdout, stages, orgVars, filteredDeliveries,
                 eInput, eNumWorkers, eJobs, eSent, eClosed, eResults, eRunning,
                 eExited, detailedDeliveries, detailCalls, enrichRet, details>>
  /\ UNCHANGED auxVars

\* The collecting loop is over: return detailedDeliveries, nil.
EnrichReturn ==
  /\ pc = "eCollect"
  /\ eCollected = Len(eInput)
  /\ enrichRet' = "nil"
  /\ pc' = "filterURL"
  /\ UNCHANGED <<cfg, flags, err, stdout, stderr, stages, orgVars, filteredDeliveries,
                 eInput, eNumWorkers, eJobs, eSent, eClosed, eResults, eErrors,
                 eRunning, eExited, eCollected, detailedDeliveries, detailCalls,
                 details>>
  /\ UNCHANGED auxVars

(***************************************************************************)
(* run: the URL filter, the sort, the head limit and the output.           *)
(***************************************************************************)
\* A run that relies on processRepository's hook pre-filter and keeps every
\* enriched record.
RunFilterURLKeepsAll ==
  /\ pc = "filterURL"
  /\ filteredDeliveries' = detailedDeliveries
  /\ stages' = Append(stages, "url")
  /\ pc' = "sort"
  /\ UNCHANGED <<cfg, flags, err, stdout, stderr, orgVars, enrichVars>>
  /\ UNCHANGED auxVars

RunFilterURL ==
  /\ pc = "filterURL"
  /\ filteredDeliveries' = FilterByURL(detailedDeliveries, cfg)
  /\ stages' = Append(stages, "url")
  /\ pc' = "sort"
  /\ UNCHANGED <<cfg, flags, err, stdout, stderr, orgVars, enrichVars>>
  /\ UNCHANGED auxVars

RunSort ==
  /\ pc = "sort"
  /\ LET sc == GetSortConfig(cfg)
     IN  filteredDeliveries' = ApplySort(filteredDeliveries, sc[1], sc[2])
  /\ stages' = Append(stages, "sort")
  /\ pc' = "head"
  /\ UNCHANGED <<cfg, flags, err, stdout, stderr, orgVars, enrichVars>>
  /\ UNCHANGED auxVars

\* The orders in which a range over a map with these keys can yield them.
KeyOrders(keys) ==
  { o \in [1..Cardinality(keys) -> keys] :
      \A i, j \in 1..Cardinality(keys) : i # j => o[i] # o[j] }

RepoKeys(deliveries) == { deliveries[i].Repository : i \in 1..Len(deliveries) }

RunHeadLimit ==
  /\ pc = "head"
  /\ IF cfg.Head > 0
     THEN /\ \E order \in KeyOrders(RepoKeys(filteredDeliveries)) :
               LET sc == GetSortConfig(cfg)
               IN  filteredDeliveries' =
                     applyHeadLimit(filteredDeliveries, cfg.Head, sc[1], sc[2], order)
          /\ stages' = stages \o <<"head", "resort">>
     ELSE UNCHANGED <<filteredDeliveries, stages>>
  /\ pc' = "output"
  /\ UNCHANGED <<cfg, flags, err, stdout, stderr, orgVars, enrichVars>>
  /\ UNCHANGED auxVars

\* output.FormatJSON or output.FormatTable is handed filteredDeliveries.
RunOutput ==
  /\ pc = "output"
  /\ stdout' = Append(stdout, [format |-> IF cfg.JSONOutput THEN "json" ELSE "table",
                                deliveries |-> filteredDeliveries])
  /\ Return("nil")
  /\ UNCHANGED <<cfg, flags, stderr, stages, orgVars, filteredDeliveries, enrichVars>>
  /\ UNCHANGED auxVars

Next ==
  \/ RunParseDates
  \/ RunValidate
  \/ RunNewClient
  \/ OrgListRepos
  \/ OrgSendJob
  \/ OrgCloseJobs
  \/ OrgWorkerReceive
  \/ OrgWorkerProcess
  \/ OrgWorkerExit
  \/ OrgCollect
  \/ OrgReturn
  \/ RunProcessRepository
  \/ RunFilterTime
  \/ RunFilterFailed
  \/ EnrichStart
  \/ EnrichSendJob
  \/ EnrichCloseJobs
  \/ EnrichWorkerReceive
  \/ EnrichWorkerError
  \/ EnrichWorkerResult
  \/ EnrichWorkerExit
  \/ EnrichCollectResult
  \/ EnrichCollectError
  \/ EnrichReturn
  \/ RunFilterURL
  \/ RunSort
  \/ RunHeadLimit
  \/ RunOutput

Spec == Init /\ [][Next]_vars

(***************************************************************************)
(* What the calls of a run were given and gave back, read from fetched and *)
(* details, and counts over the warnings written.                          *)
(***************************************************************************)
FetchOf(repo) == CHOOSE x \in fetched : x.repo = repo

DetailOf(d) == CHOOSE x \in details : x.delivery = d

FailedRepos == {x \in fetched : x.result.err}

FailedDetails == {x \in details : x.detail.err}

WarningCount(kind) ==
  BagCardinality([w \in {v \in BagToSet(stderr) : v.kind = kind} |-> stderr[w]])

Occurrences(seq, e) == Len(SelectSeq(seq, LAMBDA x : x = e))

\* The records of one repository stand next to each other in seq.
Contiguous(seq) ==
  \A i, j, k \in 1..Len(seq) :
     (i < j /\ j < k /\ seq[i].Repository = seq[k].Repository)
        => seq[j].Repository = seq[i].Repository

(***************************************************************************)
(* C1.  A discovery pool run on N >= 1 repositories calls processRepository*)
(* exactly once for each of them and never twice for one; when             *)
(* processOrganization returns, every call has completed, the merged slice *)
(* is the concatenation, block by block, of the deliveries of exactly the  *)
(* repositories whose call succeeded, and exactly one "failed to process"  *)
(* warning has been written for each repository whose call failed.         *)
(***************************************************************************)
C1_DiscoveryComplete ==
  /\ \A r \in BagToSet(calls) : CopiesIn(r, calls) = 1
  /\ (orgRet = "nil" /\ repos # <<>>) =>
        /\ \A i \in 1..Len(repos) : CopiesIn(repos[i], calls) = 1
        /\ BagCardinality(calls) = Len(repos)
        /\ BagToSet(dRunning) = {}
        /\ dJobs = <<>>
        /\ dResults = <<>>
        /\ \A i \in 1..Len(repos) : \E x \in fetched : x.repo = repos[i]
        /\ \A x \in fetched :
              RepoGroup(allDeliveries, x.repo) =
                 IF x.result.err THEN <<>> ELSE x.result.deliveries
        /\ RepoKeys(allDeliveries) \subseteq {x.repo : x \in fetched}
        /\ Contiguous(allDeliveries)
        /\ \A x \in fetched :
              CopiesIn(Warning("repo", x.repo, 0, 0), stderr) =
                 IF x.result.err THEN 1 ELSE 0
        /\ WarningCount("repo") = Cardinality(FailedRepos)

\* processOrganization has returned after one repository failed and another
\* contributed deliveries.
C1_Witness ==
  /\ orgRet = "nil"
  /\ Len(repos) = 2
  /\ \E x, y \in fetched :
        x.result.err /\ ~y.result.err /\ y.result.deliveries # <<>>
  /\ allDeliveries # <<>>
  /\ WarningCount("repo") = 1

(***************************************************************************)
(* C2.  An enrichment pool run on N >= 1 deliveries requests the detail of *)
(* each exactly once; every finished request has put exactly one message   *)
(* on exactly one of the two channels; when fetchDeliveryDetails returns,  *)
(* every request has completed, the result holds exactly the deliveries    *)
(* whose request succeeded, each once and carrying the detail's URL, and   *)
(* exactly one "failed to fetch detail" warning has been written for each  *)
(* request that failed.                                                    *)
(***************************************************************************)
C2_EnrichmentComplete ==
  /\ \A d \in BagToSet(detailCalls) : CopiesIn(d, detailCalls) = 1
  /\ Cardinality(details) = Len(eResults) + Len(eErrors) + eCollected
  /\ Cardinality(FailedDetails) = Len(eErrors) + WarningCount("detail")
  /\ (enrichRet = "nil" /\ eInput # <<>>) =>
        /\ \A i \in 1..Len(eInput) : CopiesIn(eInput[i], detailCalls) = 1
        /\ BagCardinality(detailCalls) = Len(eInput)
        /\ BagToSet(eRunning) = {}
        /\ eJobs = <<>>
        /\ eResults = <<>>
        /\ eErrors = <<>>
        /\ \A i \in 1..Len(eInput) : \E x \in details : x.delivery = eInput[i]
        /\ \A x \in details :
              Occurrences(detailedDeliveries,
                          [x.delivery EXCEPT !.URL = x.detail.URL]) =
                 IF x.detail.err THEN 0 ELSE 1
        /\ Len(detailedDeliveries) = Cardinality(details \ FailedDetails)
        /\ WarningCount("detail") = Cardinality(FailedDetails)

\* fetchDeliveryDetails has returned after one request failed and another
\* succeeded.
C2_Witness ==
  /\ enrichRet = "nil"
  /\ Len(eInput) >= 2
  /\ FailedDetails # {}
  /\ details \ FailedDetails # {}
  /\ Len(detailedDeliveries) = Cardinality(details \ FailedDetails)

(***************************************************************************)
(* C4.  The failure of an item is never the pool's error: the only error   *)
(* processOrganization returns is that of ListOrgRepos, before any item is *)
(* attempted; once a pool has been started on N >= 1 items and is over, it *)
(* has returned nil and every item has been attempted, whichever items     *)
(* failed, all of them included; fetchDeliveryDetails returns no error.    *)
(***************************************************************************)
C4_FailureIsolation ==
  /\ orgRet \in {"none", "nil", "failed to list organization repositories"}
  /\ orgRet = "failed to list organization repositories" => BagToSet(calls) = {}
  /\ enrichRet \in {"none", "nil"}
  /\ (repos # <<>> /\ pc \notin {"dSend", "dCollect"}) =>
        /\ orgRet = "nil"
        /\ \A i \in 1..Len(repos) : repos[i] \in BagToSet(calls)
        /\ Cardinality(fetched) = Len(repos)
  /\ (eInput # <<>> /\ pc \notin {"eSend", "eCollect"}) =>
        /\ enrichRet = "nil"
        /\ \A i \in 1..Len(eInput) : eInput[i] \in BagToSet(detailCalls)
        /\ Cardinality(details) = Len(eInput)
  /\ (pc = "done" /\ (repos # <<>> \/ eInput # <<>>)) => err = "nil"

\* Both pools have returned nil, every repository of the first having failed
\* but one, and every request of the second having failed.
C4_Witness ==
  /\ orgRet = "nil"
  /\ enrichRet = "nil"
  /\ Len(repos) = 2
  /\ Cardinality(FailedRepos) = 1
  /\ eInput # <<>>
  /\ FailedDetails = details
  /\ pc = "done"
  /\ err = "nil"

\* processOrganization has returned nil after every repository failed.
C4_WitnessAllFailed ==
  /\ orgRet = "nil"
  /\ Len(repos) = 2
  /\ Cardinality(FailedRepos) = 2

(***************************************************************************)
(* C5.  processRepository fails, with no deliveries, exactly when the list *)
(* of the repository's hooks cannot be fetched.  Otherwise it returns, for *)
(* each hook that passes the pre-filter and whose deliveries could be      *)
(* listed, all of that hook's deliveries stamped with the repository, the  *)
(* hook id and the hook's URL; a hook that passes the pre-filter and whose *)
(* deliveries could not be listed contributes nothing and gets one         *)
(* warning; a hook that does not pass contributes nothing.                 *)
(***************************************************************************)
Eligible(h, filter) ==
  filter = StrEmpty \/ Contains(ToLower(h.ConfigURL), ToLower(filter))

HookGroup(deliveries, hookID) ==
  SelectSeq(deliveries, LAMBDA d : d.HookID = hookID)

Stamped(repo, h, raw) ==
  [i \in 1..Len(raw) |->
     [raw[i] EXCEPT !.Repository = repo, !.HookID = h.ID, !.URL = h.ConfigURL]]

HooksOf(x) == {x.answer.hooksResp.hooks[i] : i \in 1..Len(x.answer.hooksResp.hooks)}

\* The hooks of x that pass the pre-filter and whose deliveries x could not list.
Skipped(x) ==
  {h \in HooksOf(x) : Eligible(h, cfg.Filter) /\ x.answer.delivResp[h.ID].err}

C5_HooksSkippedWithWarning ==
  \A x \in fetched :
     /\ x.result.err = x.answer.hooksResp.err
     /\ x.result.err => x.result.deliveries = <<>>
     /\ \A h \in HooksOf(x) :
           HookGroup(x.result.deliveries, h.ID) =
              IF Eligible(h, cfg.Filter) /\ h \notin Skipped(x)
              THEN Stamped(x.repo, h, x.answer.delivResp[h.ID].deliveries)
              ELSE <<>>
     /\ \A i \in 1..Len(x.result.deliveries) :
           /\ x.result.deliveries[i].Repository = x.repo
           /\ \E h \in HooksOf(x) : h.ID = x.result.deliveries[i].HookID
     /\ \A id \in HookIDs :
           CopiesIn(Warning("hook", x.repo, id, 0), stderr) =
              IF \E h \in Skipped(x) : h.ID = id THEN 1 ELSE 0

\* A repository has succeeded with the deliveries of one hook while another
\* hook that passes the pre-filter could not be listed.
C5_Witness ==
  \E x \in fetched :
     /\ ~x.result.err
     /\ x.result.deliveries # <<>>
     /\ Skipped(x) # {}

\* C5 as the specification states it: a repository either fails with no
\* deliveries or contributes the deliveries of every hook that passes the
\* pre-filter, never those of only some of them.
C5_AllOrNothing ==
  \A x \in fetched :
     \/ x.result.err /\ x.result.deliveries = <<>>
     \/ /\ ~x.result.err
        /\ \A h \in HooksOf(x) :
              Eligible(h, cfg.Filter) =>
                 /\ ~x.answer.delivResp[h.ID].err
                 /\ HookGroup(x.result.deliveries, h.ID) =
                       Stamped(x.repo, h, x.answer.delivResp[h.ID].deliveries)

(***************************************************************************)
(* C6.  When ListOrgRepos fails, or on a single repository the list of its *)
(* hooks cannot be fetched, run has returned that error: no worker of      *)
(* either pool was started, no detail was requested, no filter, sort or    *)
(* head limit was executed and nothing was handed to a formatter.          *)
(***************************************************************************)
C6_FatalTargetFailure ==
  (\/ orgRet = "failed to list organization repositories"
   \/ cfg.Repo # StrEmpty /\ FailedRepos # {}) =>
     /\ pc = "done"
     /\ err = IF cfg.Org # StrEmpty
              THEN "failed to list organization repositories"
              ELSE "failed to list webhooks"
     /\ dNumWorkers = 0
     /\ eNumWorkers = 0
     /\ (cfg.Org # StrEmpty => BagToSet(calls) = {})
     /\ BagToSet(detailCalls) = {}
     /\ stages = <<>>
     /\ stdout = <<>>
     /\ allDeliveries = <<>>
     /\ filteredDeliveries = <<>>

\* run has returned the error of ListOrgRepos.
C6_Witness ==
  /\ cfg.Org # StrEmpty
  /\ orgRet = "failed to list organization repositories"
  /\ pc = "done"
  /\ err = "failed to list organization repositories"

\* run on one repository has returned the error of the hook listing.
C6_WitnessRepo ==
  /\ cfg.Repo # StrEmpty
  /\ FailedRepos # {}
  /\ pc = "done"
  /\ err = "failed to list webhooks"

(***************************************************************************)
(* The run whose results arrive in the order of submission: the answers    *)
(* recorded in fetched and details, merged in the order of repos, with the *)
(* groups of the head limit visited in that order too.  It is one of the   *)
(* interleavings of the run that got these answers.                        *)
(***************************************************************************)
RefTargets == IF cfg.Org # StrEmpty THEN repos ELSE <<cfg.Repo>>

RECURSIVE RefMerge(_)
RefMerge(rs) ==
  IF rs = <<>> THEN <<>>
  ELSE (IF FetchOf(Head(rs)).result.err THEN <<>>
        ELSE FetchOf(Head(rs)).result.deliveries) \o RefMerge(Tail(rs))

RECURSIVE RefEnrich(_)
RefEnrich(ds) ==
  IF ds = <<>> THEN <<>>
  ELSE (IF DetailOf(Head(ds)).detail.err THEN <<>>
        ELSE <<[Head(ds) EXCEPT !.URL = DetailOf(Head(ds)).detail.URL]>>)
       \o RefEnrich(Tail(ds))

RefOutput ==
  LET sc == GetSortConfig(cfg)
      inRange == SelectSeq(RefMerge(RefTargets),
                           LAMBDA d : InRange(d.DeliveredAt, cfg.Since, cfg.Until))
      failed == IF cfg.Failed
                THEN SelectSeq(inRange, LAMBDA d : IsFailed(d.StatusCode))
                ELSE inRange
      matching == IF cfg.Filter # StrEmpty
                  THEN SelectSeq(RefEnrich(failed),
                                 LAMBDA d : MatchesPattern(d.URL, cfg.Filter))
                  ELSE failed
      sorted == ApplySort(matching, sc[1], sc[2])
      order == SelectSeq(RefTargets, LAMBDA r : r \in RepoKeys(sorted))
  IN  IF cfg.Head > 0
      THEN applyHeadLimit(sorted, cfg.Head, sc[1], sc[2], order)
      ELSE sorted

(***************************************************************************)
(* C8.  Arrival-order independence: a run that has handed its result to    *)
(* the formatter has handed it the sequence that the run with the same     *)
(* answers and the same configuration hands over when its results arrive   *)
(* in the order of submission.                                             *)
(***************************************************************************)
C8_ArrivalOrderIndependent ==
  (pc = "done" /\ err = "nil") => stdout[1].deliveries = RefOutput

(***************************************************************************)
(* C10.  Whatever is handed to a formatter is ordered by the configured    *)
(* field and direction: no record is followed by one that the configured   *)
(* order puts strictly before it, with a head limit or without.            *)
(***************************************************************************)
Sign(n) == IF n < 0 THEN -1 ELSE IF n > 0 THEN 1 ELSE 0

KeyCompare(a, b, field) ==
  IF field = StrRepository THEN StrCompare(a.Repository, b.Repository)
  ELSE IF field = StrCode THEN Sign(a.StatusCode - b.StatusCode)
  ELSE IF field = StrEvent THEN StrCompare(a.Event, b.Event)
  ELSE Sign(a.DeliveredAt - b.DeliveredAt)

InOrder(a, b, field, ascending) ==
  IF ascending THEN KeyCompare(a, b, field) <= 0 ELSE KeyCompare(a, b, field) >= 0

IsSortedBy(seq, field, ascending) ==
  \A i \in 1..(Len(seq) - 1) : InOrder(seq[i], seq[i + 1], field, ascending)

C10_OutputSorted ==
  \A k \in 1..Len(stdout) :
     IsSortedBy(stdout[k].deliveries, GetSortConfig(cfg)[1], GetSortConfig(cfg)[2])

\* The head limit has dropped records of two repositories, and the records
\* handed to the formatter differ in the sort key.
C10_Witness ==
  /\ pc = "done"
  /\ cfg.Head > 0
  /\ Len(stdout) = 1
  /\ Len(stdout[1].deliveries) >= 2
  /\ Len(stdout[1].deliveries) < Len(allDeliveries)
  /\ Cardinality(RepoKeys(stdout[1].deliveries)) = 2
  /\ KeyCompare(stdout[1].deliveries[1], stdout[1].deliveries[2],
                GetSortConfig(cfg)[1]) # 0

(***************************************************************************)
(* Ordering alone: ApplySort on a slice, ApplySort again on the result,    *)
(* and applyHeadLimit on the result, for every --sort value that Validate  *)
(* accepts and every slice of at most MaxLen of the records below, which   *)
(* share repositories, instants, status codes and events.                  *)
(***************************************************************************)
mainVars == <<runVars, orgVars, filteredDeliveries, enrichVars>>

SortRecord(id, repo, at, code, event) ==
  [ID |-> id, DeliveredAt |-> at, StatusCode |-> code, Event |-> event,
   URL |-> StrEmpty, Repository |-> repo, HookID |-> 1]

SortRecords ==
  { SortRecord(1, RepoNames[1], 3, 200, EventPush),
    SortRecord(2, RepoNames[1], 2, 500, EventPush),
    SortRecord(3, RepoNames[2], 3, 500, EventIssues),
    SortRecord(4, RepoNames[2], 2, 0, EventIssues),
    SortRecord(5, RepoNames[1], 3, 200, EventPush) }

\* Five records of one repository and two of another, from newest to oldest.
HeadExample ==
  << SortRecord(11, RepoNames[1], 9, 200, EventPush),
     SortRecord(12, RepoNames[1], 8, 500, EventPush),
     SortRecord(13, RepoNames[2], 7, 200, EventIssues),
     SortRecord(14, RepoNames[1], 6, 404, EventIssues),
     SortRecord(15, RepoNames[1], 5, 200, EventPush),
     SortRecord(16, RepoNames[2], 4, 500, EventPush),
     SortRecord(17, RepoNames[1], 3, 0, EventIssues) >>

SortInputs == UNION {[1..n -> SortRecords] : n \in 0..MaxLen} \cup {HeadExample}

\* The field and direction GetSortConfig derives from the --sort value.
SortConfigOf(flag) == GetSortConfig([SortBy |-> flag])

InitSort ==
  /\ cfg = BaseConfig
  /\ flags = NoDates
  /\ RunIdle
  /\ PoolIdle
  /\ FilterIdle
  /\ TableIdle
  /\ sIn \in SortInputs
  /\ sFlag \in SortFlags
  /\ sHead \in 0..MaxSortHead
  /\ sSorted = <<>>
  /\ sAgain = <<>>
  /\ sLimited = <<>>
  /\ sPc = "in"

\* filteredDeliveries = github.ApplySort(filteredDeliveries, sortField, ascending)
SortApply ==
  /\ sPc = "in"
  /\ sSorted' = ApplySort(sIn, SortConfigOf(sFlag)[1], SortConfigOf(sFlag)[2])
  /\ sPc' = "sorted"
  /\ UNCHANGED <<mainVars, tableVars, poolVars, filterVars, sIn, sFlag, sHead, sAgain, sLimited>>

\* ApplySort on the slice ApplySort returned.
SortAgain ==
  /\ sPc = "sorted"
  /\ sAgain' = ApplySort(sSorted, SortConfigOf(sFlag)[1], SortConfigOf(sFlag)[2])
  /\ sPc' = "again"
  /\ UNCHANGED <<mainVars, tableVars, poolVars, filterVars, sIn, sFlag, sHead, sSorted, sLimited>>

\* applyHeadLimit on the sorted slice.
SortLimit ==
  /\ sPc = "again"
  /\ \E order \in KeyOrders(RepoKeys(sSorted)) :
        sLimited' = applyHeadLimit(sSorted, sHead, SortConfigOf(sFlag)[1],
                                   SortConfigOf(sFlag)[2], order)
  /\ sPc' = "limited"
  /\ UNCHANGED <<mainVars, tableVars, poolVars, filterVars, sIn, sFlag, sHead, sSorted, sAgain>>

NextSort ==
  \/ SortApply
  \/ SortAgain
  \/ SortLimit

SpecSort == InitSort /\ [][NextSort]_vars

(***************************************************************************)
(* C9.  For each sort field and direction, ApplySort returns a slice that  *)
(* is sorted by them, ApplySort on that slice returns it unchanged, and    *)
(* ApplySort on any slice that is already sorted by them returns it        *)
(* unchanged: records with equal keys keep their places.                   *)
(***************************************************************************)
C9_SortedUnchanged ==
  /\ sPc \in {"sorted", "again", "limited"} =>
        /\ IsSortedBy(sSorted, SortConfigOf(sFlag)[1], SortConfigOf(sFlag)[2])
        /\ IsSortedBy(sIn, SortConfigOf(sFlag)[1], SortConfigOf(sFlag)[2])
              => sSorted = sIn
  /\ sPc \in {"again", "limited"} => sAgain = sSorted

\* A slice that the first ApplySort reordered, and in which two different
\* records with the same key are neighbours, has been sorted again.
C9_Witness ==
  /\ sPc = "again"
  /\ Len(sSorted) >= 3
  /\ sSorted # sIn
  /\ sAgain = sSorted
  /\ \E i \in 1..(Len(sSorted) - 1) :
        /\ KeyCompare(sSorted[i], sSorted[i + 1], SortConfigOf(sFlag)[1]) = 0
        /\ sSorted[i] # sSorted[i + 1]

(***************************************************************************)
(* A pool by counts.  processOrganization and fetchDeliveryDetails with    *)
(* the items reduced to their number, so that a pool of more items than    *)
(* maxConcurrent is followed: how many jobs are sent, queued, in flight,   *)
(* waiting in a channel as a success or a failure, and collected.  The     *)
(* discovery pool has one results channel of capacity len(repos), the      *)
(* enrichment pool a results and an errors channel of capacity             *)
(* len(deliveries) each.                                                   *)
(***************************************************************************)
PoolCap(kind) ==
  IF kind = "discovery" THEN maxConcurrentRepos ELSE maxConcurrentDetails

InitPool ==
  /\ cfg = BaseConfig
  /\ flags = NoDates
  /\ RunIdle
  /\ SortIdle
  /\ FilterIdle
  /\ TableIdle
  /\ pKind \in {"discovery", "enrichment"}
  /\ pN \in 0..PoolMaxItems
  /\ pNumWorkers = 0
  /\ pSent = 0
  /\ pQueued = 0
  /\ pClosed = FALSE
  /\ pRunning = 0
  /\ pOk = 0
  /\ pFail = 0
  /\ pExited = 0
  /\ pCollected = 0
  /\ pMerged = 0
  /\ pWarned = 0
  /\ pPc = "call"

\* The early return on no items, or the channels and the start of the workers.
PoolStart ==
  /\ pPc = "call"
  /\ IF pN = 0
     THEN pPc' = "returned" /\ pNumWorkers' = pNumWorkers
     ELSE pPc' = "send" /\ pNumWorkers' = NumWorkers(PoolCap(pKind), pN)
  /\ UNCHANGED <<mainVars, tableVars, sortVars, filterVars, pKind, pN, pSent, pQueued, pClosed, pRunning,
                 pOk, pFail, pExited, pCollected, pMerged, pWarned>>

\* jobs <- item
PoolSendJob ==
  /\ pPc = "send"
  /\ pSent < pN
  /\ pQueued < pN
  /\ pSent' = pSent + 1
  /\ pQueued' = pQueued + 1
  /\ UNCHANGED <<mainVars, tableVars, sortVars, filterVars, pKind, pN, pNumWorkers, pClosed, pRunning, pOk,
                 pFail, pExited, pCollected, pMerged, pWarned, pPc>>

\* The sending loop without the close(jobs) that follows it.
PoolCloseJobsForgotten ==
  /\ pPc = "send"
  /\ pSent = pN
  /\ pPc' = "collect"
  /\ UNCHANGED <<mainVars, tableVars, sortVars, filterVars, pKind, pN, pNumWorkers, pSent, pQueued, pClosed,
                 pRunning, pOk, pFail, pExited, pCollected, pMerged, pWarned>>

\* close(jobs)
PoolCloseJobs ==
  /\ pPc = "send"
  /\ pSent = pN
  /\ pClosed' = TRUE
  /\ pPc' = "collect"
  /\ UNCHANGED <<mainVars, tableVars, sortVars, filterVars, pKind, pN, pNumWorkers, pSent, pQueued,
                 pRunning, pOk, pFail, pExited, pCollected, pMerged, pWarned>>

\* Workers that are at the range over jobs.
PoolIdleWorkers == pNumWorkers - pRunning - pExited

\* A worker receives a job and starts its fetch.
PoolWorkerReceive ==
  /\ PoolIdleWorkers > 0
  /\ pQueued > 0
  /\ pQueued' = pQueued - 1
  /\ pRunning' = pRunning + 1
  /\ UNCHANGED <<mainVars, tableVars, sortVars, filterVars, pKind, pN, pNumWorkers, pSent, pClosed, pOk,
                 pFail, pExited, pCollected, pMerged, pWarned, pPc>>

\* The channel a success is sent on, were it made with room for one message.
PoolRoomForSuccessOneSlot ==
  IF pKind = "discovery" THEN pOk + pFail < 1 ELSE pOk < 1

\* The channel a success is sent on has room.
PoolRoomForSuccess ==
  IF pKind = "discovery" THEN pOk + pFail < pN ELSE pOk < pN

\* The channel a failure is sent on has room.
PoolRoomForFailure ==
  IF pKind = "discovery" THEN pOk + pFail < pN ELSE pFail < pN

\* A worker's fetch succeeds and it sends the result.
PoolWorkerSucceed ==
  /\ pRunning > 0
  /\ PoolRoomForSuccess
  /\ pRunning' = pRunning - 1
  /\ pOk' = pOk + 1
  /\ UNCHANGED <<mainVars, tableVars, sortVars, filterVars, pKind, pN, pNumWorkers, pSent, pQueued, pClosed,
                 pFail, pExited, pCollected, pMerged, pWarned, pPc>>

\* A worker's fetch fails and it sends the failure.
PoolWorkerFail ==
  /\ pRunning > 0
  /\ PoolRoomForFailure
  /\ pRunning' = pRunning - 1
  /\ pFail' = pFail + 1
  /\ UNCHANGED <<mainVars, tableVars, sortVars, filterVars, pKind, pN, pNumWorkers, pSent, pQueued, pClosed,
                 pOk, pExited, pCollected, pMerged, pWarned, pPc>>

\* A worker finds jobs closed and drained, and returns.
PoolWorkerExit ==
  /\ PoolIdleWorkers > 0
  /\ pQueued = 0
  /\ pClosed
  /\ pExited' = pExited + 1
  /\ UNCHANGED <<mainVars, tableVars, sortVars, filterVars, pKind, pN, pNumWorkers, pSent, pQueued, pClosed,
                 pRunning, pOk, pFail, pCollected, pMerged, pWarned, pPc>>

\* One round of the collecting loop receives a success and merges it.
PoolCollectResult ==
  /\ pPc = "collect"
  /\ pCollected < pN
  /\ pOk > 0
  /\ pOk' = pOk - 1
  /\ pCollected' = pCollected + 1
  /\ pMerged' = pMerged + 1
  /\ UNCHANGED <<mainVars, tableVars, sortVars, filterVars, pKind, pN, pNumWorkers, pSent, pQueued, pClosed,
                 pRunning, pFail, pExited, pWarned, pPc>>

\* One round of the collecting loop receives a failure and writes the warning.
PoolCollectError ==
  /\ pPc = "collect"
  /\ pCollected < pN
  /\ pFail > 0
  /\ pFail' = pFail - 1
  /\ pCollected' = pCollected + 1
  /\ pWarned' = pWarned + 1
  /\ UNCHANGED <<mainVars, tableVars, sortVars, filterVars, pKind, pN, pNumWorkers, pSent, pQueued, pClosed,
                 pRunning, pOk, pExited, pMerged, pPc>>

\* The collecting loop is over: the pool call returns nil.
PoolReturn ==
  /\ pPc = "collect"
  /\ pCollected = pN
  /\ pPc' = "returned"
  /\ UNCHANGED <<mainVars, tableVars, sortVars, filterVars, pKind, pN, pNumWorkers, pSent, pQueued, pClosed,
                 pRunning, pOk, pFail, pExited, pCollected, pMerged, pWarned>>

NextPool ==
  \/ PoolStart
  \/ PoolSendJob
  \/ PoolCloseJobs
  \/ PoolWorkerReceive
  \/ PoolWorkerSucceed
  \/ PoolWorkerFail
  \/ PoolWorkerExit
  \/ PoolCollectResult
  \/ PoolCollectError
  \/ PoolReturn

SpecPool == InitPool /\ [][NextPool]_vars

\* The scheduler is fair to the caller and to the workers, and every fetch
\* returns.
SpecPoolFair ==
  /\ InitPool
  /\ [][NextPool]_vars
  /\ WF_vars(PoolStart)
  /\ WF_vars(PoolSendJob)
  /\ WF_vars(PoolCloseJobs)
  /\ WF_vars(PoolWorkerReceive)
  /\ WF_vars(PoolWorkerSucceed \/ PoolWorkerFail)
  /\ WF_vars(PoolWorkerExit)
  /\ WF_vars(PoolCollectResult)
  /\ WF_vars(PoolCollectError)
  /\ WF_vars(PoolReturn)

(***************************************************************************)
(* C3.  In every state of a pool the fetches in flight are at most         *)
(* min(10, number of repositories) in processOrganization and at most      *)
(* min(5, number of deliveries) in fetchDeliveryDetails.                   *)
(***************************************************************************)
C3_BoundedParallelism ==
  /\ pKind = "discovery" => pRunning <= Min(10, pN)
  /\ pKind = "enrichment" => pRunning <= Min(5, pN)

\* Ten repositories are in flight while an eleventh waits in jobs.
C3_Witness ==
  /\ pKind = "discovery"
  /\ pN > 10
  /\ pRunning = 10
  /\ pQueued > 0

\* Five details are in flight while more deliveries wait in jobs.
C3_WitnessDetails ==
  /\ pKind = "enrichment"
  /\ pN > 5
  /\ pRunning = 5
  /\ pQueued > 0

(***************************************************************************)
(* C7.  Under fair scheduling, and with every fetch returning, a pool call *)
(* eventually has returned with every worker it started having returned    *)
(* and no fetch in flight, and stays so, whichever fetches fail.           *)
(***************************************************************************)
C7_PoolTerminates ==
  <>[](pPc = "returned" /\ pExited = pNumWorkers /\ pRunning = 0
       /\ pQueued = 0 /\ pCollected = pN)

\* A pool of more items than workers has returned after successes and
\* failures, and all its workers have returned.
C7_Witness ==
  /\ pPc = "returned"
  /\ pN > pNumWorkers
  /\ pNumWorkers > 0
  /\ pExited = pNumWorkers
  /\ pMerged > 0
  /\ pWarned > 0

(***************************************************************************)
(* C11.  For a head limit K > 0 and a sorted slice, applyHeadLimit returns *)
(* for each repository exactly min(K, n) records, n being the number of    *)
(* that repository's records, and they are the first min(K, n) records of  *)
(* that repository in the sorted slice, each as often as it stands among   *)
(* them; no repository appears that the slice does not have.               *)
(***************************************************************************)
FirstOf(seq, k) == SubSeq(seq, 1, Min(k, Len(seq)))

SameRecords(s1, s2) ==
  /\ Len(s1) = Len(s2)
  /\ \A i \in 1..Len(s1) : Occurrences(s1, s1[i]) = Occurrences(s2, s1[i])

C11_HeadLimitPerRepository ==
  (sPc = "limited" /\ sHead > 0) =>
     /\ RepoKeys(sLimited) = RepoKeys(sSorted)
     /\ \A r \in RepoKeys(sSorted) :
           /\ Len(RepoGroup(sLimited, r)) = Min(sHead, Len(RepoGroup(sSorted, r)))
           /\ SameRecords(RepoGroup(sLimited, r),
                          FirstOf(RepoGroup(sSorted, r), sHead))

\* Five records of one repository and two of another, limited to three each:
\* three and two are left.
C11_Witness ==
  /\ sPc = "limited"
  /\ sHead = 3
  /\ sIn = HeadExample
  /\ Len(RepoGroup(sSorted, RepoNames[1])) = 5
  /\ Len(RepoGroup(sSorted, RepoNames[2])) = 2
  /\ Len(RepoGroup(sLimited, RepoNames[1])) = 3
  /\ Len(RepoGroup(sLimited, RepoNames[2])) = 2

(***************************************************************************)
(* The records of a finished run that passed every filter: those the sort  *)
(* was handed.                                                             *)
(***************************************************************************)
PassedFilters ==
  IF cfg.Filter # StrEmpty
  THEN SelectSeq(detailedDeliveries, LAMBDA d : MatchesPattern(d.URL, cfg.Filter))
  ELSE SelectSeq(allDeliveries,
                 LAMBDA d : /\ InRange(d.DeliveredAt, cfg.Since, cfg.Until)
                            /\ (cfg.Failed => IsFailed(d.StatusCode)))

(***************************************************************************)
(* C12.  With --head=N, N > 0, a finished run has handed over, for each    *)
(* repository, min(N, n) of its n records that passed the filters, and     *)
(* none of that repository's records left out was delivered later than one *)
(* handed over: they are its N most recent, whatever --sort is.            *)
(***************************************************************************)
C12_HeadMostRecent ==
  (pc = "done" /\ err = "nil" /\ cfg.Head > 0) =>
     \A r \in RepoKeys(PassedFilters) :
        LET kept == RepoGroup(stdout[1].deliveries, r)
            all == RepoGroup(PassedFilters, r)
        IN  /\ Len(kept) = Min(cfg.Head, Len(all))
            /\ \A i \in 1..Len(kept), j \in 1..Len(all) :
                  Occurrences(kept, all[j]) = 0
                     => kept[i].DeliveredAt >= all[j].DeliveredAt

(***************************************************************************)
(* C13.  The stages of a run occur in one order: date range filter,        *)
(* --failed filter if enabled, enrichment and URL filter if a pattern is   *)
(* set, sort, head limit and its re-sort if --head > 0.  At every moment   *)
(* the stages executed are a beginning of that list, a finished run has    *)
(* executed all of it, the first stage starts only after discovery has     *)
(* returned and the URL filter only after enrichment has returned.         *)
(***************************************************************************)
ExpectedStages ==
  <<"time">>
     \o (IF cfg.Failed THEN <<"failed">> ELSE <<>>)
     \o (IF cfg.Filter # StrEmpty THEN <<"enrich", "url">> ELSE <<>>)
     \o <<"sort">>
     \o (IF cfg.Head > 0 THEN <<"head", "resort">> ELSE <<>>)

C13_StageOrder ==
  /\ Len(stages) <= Len(ExpectedStages)
  /\ stages = SubSeq(ExpectedStages, 1, Len(stages))
  /\ (pc = "done" /\ err = "nil") => stages = ExpectedStages
  /\ stdout # <<>> => stages = ExpectedStages
  /\ stages # <<>> =>
        /\ cfg.Org # StrEmpty => orgRet = "nil" /\ dCollected = Len(repos)
        /\ cfg.Org = StrEmpty => fetched # {}
  /\ (\E i \in 1..Len(stages) : stages[i] = "url") =>
        enrichRet = "nil" /\ eCollected = Len(eInput)
  /\ enrichRet # "none" =>
        \E i \in 1..Len(stages) : stages[i] = "enrich"

\* A run with every stage enabled has finished.
C13_Witness ==
  /\ pc = "done"
  /\ err = "nil"
  /\ stages = <<"time", "failed", "enrich", "url", "sort", "head", "resort">>
  /\ Len(eInput) >= 2
  /\ stdout[1].deliveries # <<>>

(***************************************************************************)
(* C14.  No delivery detail is requested when --filter is empty.  When it  *)
(* is set, a detail is requested at most once for a record, only for       *)
(* records that passed the date range filter and, if enabled, the --failed *)
(* filter, and once fetchDeliveryDetails has returned, exactly once for    *)
(* each of them.                                                           *)
(***************************************************************************)
Survivors ==
  SelectSeq(allDeliveries,
            LAMBDA d : /\ InRange(d.DeliveredAt, cfg.Since, cfg.Until)
                       /\ (cfg.Failed => IsFailed(d.StatusCode)))

C14_ConditionalEnrichment ==
  /\ cfg.Filter = StrEmpty =>
        /\ BagToSet(detailCalls) = {}
        /\ enrichRet = "none"
        /\ eNumWorkers = 0
  /\ \A d \in BagToSet(detailCalls) :
        /\ CopiesIn(d, detailCalls) = 1
        /\ Occurrences(Survivors, d) = 1
  /\ enrichRet = "nil" =>
        /\ cfg.Filter # StrEmpty
        /\ BagCardinality(detailCalls) = Len(Survivors)
        /\ \A i \in 1..Len(Survivors) : CopiesIn(Survivors[i], detailCalls) = 1

\* Of three records listed, the filters before enrichment dropped some and
\* the detail of each of the others was requested.
C14_Witness ==
  /\ cfg.Filter # StrEmpty
  /\ enrichRet = "nil"
  /\ Len(allDeliveries) = 3
  /\ Len(Survivors) = 2
  /\ BagCardinality(detailCalls) = 2

(***************************************************************************)
(* C15.  As stated: a record's URL is empty from its fetch until           *)
(* enrichment, and a record that survives enrichment has had its URL       *)
(* assigned exactly once.                                                  *)
(***************************************************************************)
SameDelivery(a, b) ==
  /\ a.Repository = b.Repository
  /\ a.HookID = b.HookID
  /\ a.ID = b.ID

\* The processRepository calls whose loop "deliveries[i].URL = targetURL" ran
\* over d, and the workers that ran "detailed.URL = detail.URL" on a copy of d.
URLWritesAtFetch(d) ==
  {x \in fetched : \E i \in 1..Len(x.result.deliveries) :
                      SameDelivery(x.result.deliveries[i], d)}

URLWritesAtEnrich(d) ==
  {x \in details : SameDelivery(x.delivery, d) /\ ~x.detail.err}

URLWrites(d) == Cardinality(URLWritesAtFetch(d)) + Cardinality(URLWritesAtEnrich(d))

\* d carries the config.url of its hook.
HasHookURL(d) ==
  \E x \in fetched : \E h \in HooksOf(x) :
     /\ x.repo = d.Repository
     /\ h.ID = d.HookID
     /\ d.URL = GetTargetURL(h)

\* d carries the url of the detail requested for it.
HasDetailURL(d) ==
  \E x \in URLWritesAtEnrich(d) : d.URL = x.detail.URL

C15_URLAssignedOnce ==
  /\ \A i \in 1..Len(allDeliveries) : allDeliveries[i].URL = StrEmpty
  /\ \A i \in 1..Len(eInput) : eInput[i].URL = StrEmpty
  /\ \A i \in 1..Len(detailedDeliveries) : URLWrites(detailedDeliveries[i]) = 1

(***************************************************************************)
(* C15, amended.  processRepository assigns the hook's target URL to every *)
(* record it lists, so a record carries that URL, assigned once, from its  *)
(* fetch until enrichment; enrichment assigns the detail's url to a copy,  *)
(* so a record that survives enrichment carries the detail's url and has   *)
(* had its URL assigned exactly twice.  A record printed by a run without  *)
(* --filter has had it assigned exactly once.                              *)
(***************************************************************************)
C15_URLAssignedAtFetchAndEnrichment ==
  /\ \A i \in 1..Len(dResults) : \A k \in 1..Len(dResults[i].deliveries) :
        /\ HasHookURL(dResults[i].deliveries[k])
        /\ Cardinality(URLWritesAtFetch(dResults[i].deliveries[k])) = 1
  /\ \A i \in 1..Len(allDeliveries) :
        /\ HasHookURL(allDeliveries[i])
        /\ Cardinality(URLWritesAtFetch(allDeliveries[i])) = 1
  /\ \A i \in 1..Len(eInput) :
        /\ HasHookURL(eInput[i])
        /\ Cardinality(URLWritesAtFetch(eInput[i])) = 1
  /\ \A i \in 1..Len(eResults) :
        /\ HasDetailURL(eResults[i])
        /\ URLWrites(eResults[i]) = 2
  /\ \A i \in 1..Len(detailedDeliveries) :
        /\ HasDetailURL(detailedDeliveries[i])
        /\ URLWrites(detailedDeliveries[i]) = 2
  /\ \A o \in 1..Len(stdout) : \A i \in 1..Len(stdout[o].deliveries) :
        LET d == stdout[o].deliveries[i]
        IN  IF cfg.Filter = StrEmpty
            THEN HasHookURL(d) /\ URLWrites(d) = 1
            ELSE HasDetailURL(d) /\ URLWrites(d) = 2

\* A printed record whose enriched URL replaced a different hook URL.
C15_Witness ==
  /\ pc = "done"
  /\ \E o \in 1..Len(stdout) : \E i \in 1..Len(stdout[o].deliveries) :
        LET d == stdout[o].deliveries[i]
        IN  /\ URLWrites(d) = 2
            /\ HasDetailURL(d)
            /\ ~HasHookURL(d)

(***************************************************************************)
(* C16.  With a non-empty --filter every printed record carries the url of *)
(* its delivery detail and that url contains the pattern, letter case      *)
(* ignored; right after the URL filter the records kept are exactly the    *)
(* enriched records whose url contains it.  With an empty pattern          *)
(* MatchesPattern accepts every URL.                                       *)
(***************************************************************************)
ContainsFold(url, pattern) == Contains(ToLower(url), ToLower(pattern))

URLs == {StrEmpty, UrlSlack, UrlCi, PatternSl, PatternDot}

C16_AuthoritativeURLFilter ==
  /\ cfg.Filter # StrEmpty =>
        \A o \in 1..Len(stdout) : \A i \in 1..Len(stdout[o].deliveries) :
           /\ HasDetailURL(stdout[o].deliveries[i])
           /\ ContainsFold(stdout[o].deliveries[i].URL, cfg.Filter)
  /\ (cfg.Filter # StrEmpty /\ pc = "sort") =>
        filteredDeliveries =
           SelectSeq(detailedDeliveries, LAMBDA d : ContainsFold(d.URL, cfg.Filter))
  /\ \A u \in URLs : MatchesPattern(u, StrEmpty)

\* A finished run with pattern "sl" that printed a record whose detail url is
\* "SL.x" and dropped a record of a hook that passed the pre-filter because
\* its detail url is "ci.y".
C16_Witness ==
  /\ pc = "done"
  /\ cfg.Filter = PatternSl
  /\ \E o \in 1..Len(stdout) : \E i \in 1..Len(stdout[o].deliveries) :
        stdout[o].deliveries[i].URL = UrlSlack
  /\ \E x \in details :
        /\ ~x.detail.err
        /\ x.detail.URL = UrlCi
        /\ ContainsFold(x.delivery.URL, cfg.Filter)
        /\ \A o \in 1..Len(stdout) : \A i \in 1..Len(stdout[o].deliveries) :
              ~SameDelivery(stdout[o].deliveries[i], x.delivery)

(***************************************************************************)
(* C17.  Every printed record has the repository, hook id and delivery id  *)
(* of a record returned by a delivery listing of this run and is printed   *)
(* no more often than it was listed; the same holds for the records every  *)
(* stage holds; and each step of the date range filter, the --failed       *)
(* filter, the enrichment, the URL filter, the sort and the head limit     *)
(* with its closing sort leaves no record more often than its input held   *)
(* it, the sort keeping every record.                                      *)
(***************************************************************************)
IdOf(d) == <<d.Repository, d.HookID, d.ID>>

CountId(seq, id) == Len(SelectSeq(seq, LAMBDA x : IdOf(x) = id))

\* The number of times the delivery listings of this run returned a record.
ListedCount(id) ==
  LET RECURSIVE Sum(_)
      Sum(S) == IF S = {} THEN 0
                ELSE LET x == CHOOSE y \in S : TRUE
                     IN  CountId(x.result.deliveries, id) + Sum(S \ {x})
  IN  Sum(fetched)

SubBagById(s1, s2) ==
  \A i \in 1..Len(s1) : CountId(s1, IdOf(s1[i])) <= CountId(s2, IdOf(s1[i]))

OnlyListed(seq) ==
  \A i \in 1..Len(seq) :
     /\ ListedCount(IdOf(seq[i])) >= 1
     /\ CountId(seq, IdOf(seq[i])) <= ListedCount(IdOf(seq[i]))

SubsetState ==
  /\ OnlyListed(allDeliveries)
  /\ OnlyListed(filteredDeliveries)
  /\ OnlyListed(eInput)
  /\ OnlyListed(detailedDeliveries)
  /\ \A o \in 1..Len(stdout) : OnlyListed(stdout[o].deliveries)
  /\ SubBagById(filteredDeliveries, allDeliveries)
  /\ SubBagById(eInput, allDeliveries)
  /\ SubBagById(detailedDeliveries, eInput)
  /\ \A o \in 1..Len(stdout) : SubBagById(stdout[o].deliveries, filteredDeliveries)

\* The slice a stage reads when it runs at pc.
StageInput ==
  IF pc = "filterTime" THEN allDeliveries
  ELSE IF pc = "filterURL" THEN detailedDeliveries
  ELSE filteredDeliveries

SubsetStep ==
  /\ stages' # stages => SubBagById(filteredDeliveries', StageInput)
  /\ stages' = stages => filteredDeliveries' = filteredDeliveries
  /\ pc = "sort" => SubBagById(filteredDeliveries, filteredDeliveries')
  /\ detailedDeliveries' # detailedDeliveries =>
        SubBagById(detailedDeliveries', filteredDeliveries)
  /\ stdout' # stdout =>
        \A o \in 1..Len(stdout') : SubBagById(stdout'[o].deliveries, filteredDeliveries)

C17_SubsetInvariant == [](SubsetState) /\ [][SubsetStep]_vars

\* A finished run where every stage ran, a record was removed on the way and
\* one was printed.
C17_Witness ==
  /\ pc = "done"
  /\ cfg.Filter # StrEmpty
  /\ cfg.Failed
  /\ cfg.Head > 0
  /\ Len(allDeliveries) = 2
  /\ Len(stdout) = 1
  /\ Len(stdout[1].deliveries) = 1

(***************************************************************************)
(* The three filters of run as functions of a slice and a configuration,   *)
(* applied to records whose URL is the enriched one, in each of the six    *)
(* orders.                                                                 *)
(***************************************************************************)
FilterRecord(id, at, code, url) ==
  [ID |-> id, DeliveredAt |-> at, StatusCode |-> code, Event |-> EventPush,
   URL |-> url, Repository |-> RepoNames[1], HookID |-> 1]

FilterRecords ==
  { FilterRecord(1, 2, 500, UrlSlack),
    FilterRecord(2, 1, 500, UrlSlack),
    FilterRecord(3, 3, 200, UrlSlack),
    FilterRecord(4, 2, 0, UrlCi),
    FilterRecord(5, 4, 200, UrlCi) }

FilterInputs == UNION {[1..n -> FilterRecords] : n \in 0..MaxFilterLen}

FilterConfigs ==
  { [BaseConfig EXCEPT !.Org = OrgName, !.Since = s, !.Until = u,
                       !.Failed = b, !.Filter = f] :
      s \in {NoTime, 2}, u \in {NoTime, 3}, b \in BOOLEAN,
      f \in {StrEmpty, PatternSl, PatternDot} }

FilterOrders ==
  { <<"time", "failed", "url">>, <<"time", "url", "failed">>,
    <<"failed", "time", "url">>, <<"failed", "url", "time">>,
    <<"url", "time", "failed">>, <<"url", "failed", "time">> }

InitFilter ==
  /\ cfg = BaseConfig
  /\ flags = NoDates
  /\ RunIdle
  /\ SortIdle
  /\ PoolIdle
  /\ TableIdle
  /\ fCfg \in FilterConfigs
  /\ fIn \in FilterInputs
  /\ fOrder \in FilterOrders
  /\ fOut = fIn
  /\ fDone = 0

FilterIsNext(name) == fDone < Len(fOrder) /\ fOrder[fDone + 1] = name

FilterApplyTime ==
  /\ FilterIsNext("time")
  /\ fOut' = FilterByTime(fOut, fCfg)
  /\ fDone' = fDone + 1
  /\ UNCHANGED <<mainVars, tableVars, sortVars, poolVars, fCfg, fIn, fOrder>>

FilterApplyStatus ==
  /\ FilterIsNext("failed")
  /\ fOut' = FilterByStatus(fOut, fCfg)
  /\ fDone' = fDone + 1
  /\ UNCHANGED <<mainVars, tableVars, sortVars, poolVars, fCfg, fIn, fOrder>>

FilterApplyURL ==
  /\ FilterIsNext("url")
  /\ fOut' = FilterByURL(fOut, fCfg)
  /\ fDone' = fDone + 1
  /\ UNCHANGED <<mainVars, tableVars, sortVars, poolVars, fCfg, fIn, fOrder>>

NextFilter ==
  \/ FilterApplyTime
  \/ FilterApplyStatus
  \/ FilterApplyURL

SpecFilter == InitFilter /\ [][NextFilter]_vars

\* The order of run: the date range, then --failed, then the URL pattern.
RunFilters(deliveries, c) == FilterByURL(FilterByStatus(FilterByTime(deliveries, c), c), c)

Range(seq) == {seq[i] : i \in 1..Len(seq)}

(***************************************************************************)
(* C18.  For every slice of records with their enriched URLs and every     *)
(* configuration, the three filters applied in any of the six orders leave *)
(* the same set of records as the order of run does, and the same slice.   *)
(***************************************************************************)
C18_FilterOrderIndependent ==
  fDone = 3 =>
     /\ Range(fOut) = Range(RunFilters(fIn, fCfg))
     /\ fOut = RunFilters(fIn, fCfg)

\* The filters were applied in another order than run's, each of them
\* rejects a record of the input that the other two accept, and a record
\* is left.
C18_Witness ==
  /\ fDone = 3
  /\ fOrder = <<"url", "failed", "time">>
  /\ fOut # <<>>
  /\ \E i \in 1..Len(fIn) :
        /\ ~InRange(fIn[i].DeliveredAt, fCfg.Since, fCfg.Until)
        /\ IsFailed(fIn[i].StatusCode)
        /\ MatchesPattern(fIn[i].URL, fCfg.Filter)
  /\ \E i \in 1..Len(fIn) :
        /\ InRange(fIn[i].DeliveredAt, fCfg.Since, fCfg.Until)
        /\ fCfg.Failed /\ ~IsFailed(fIn[i].StatusCode)
        /\ MatchesPattern(fIn[i].URL, fCfg.Filter)
  /\ \E i \in 1..Len(fIn) :
        /\ InRange(fIn[i].DeliveredAt, fCfg.Since, fCfg.Until)
        /\ IsFailed(fIn[i].StatusCode)
        /\ ~MatchesPattern(fIn[i].URL, fCfg.Filter)

(***************************************************************************)
(* C19.  When ParseDateRange or Validate rejects the flags, run never gets *)
(* to github.NewClient: it is at its start, at Validate, or has returned;  *)
(* no request has been made, no worker started and nothing written; and    *)
(* what it returns is the date or validation error.  run returns one of    *)
(* these errors only for rejected flags.                                   *)
(***************************************************************************)
Rejected ==
  LET r == ParseDateRange(flags.since, flags.until)
  IN  \/ r.err # "nil"
      \/ Validate([cfg EXCEPT !.Since = r.since, !.Until = r.until]) # "nil"

RejectionErrors == {"invalid --since format", "invalid --until format", "validation error"}

NoWork ==
  /\ repos = <<>>
  /\ dNumWorkers = 0
  /\ dJobs = <<>>
  /\ dRunning = EmptyBag
  /\ calls = EmptyBag
  /\ fetched = {}
  /\ orgRet = "none"
  /\ allDeliveries = <<>>
  /\ eNumWorkers = 0
  /\ eJobs = <<>>
  /\ eRunning = EmptyBag
  /\ detailCalls = EmptyBag
  /\ details = {}
  /\ enrichRet = "none"
  /\ stages = <<>>
  /\ stdout = <<>>
  /\ stderr = EmptyBag

C19_ValidationBeforeWork ==
  /\ Rejected =>
        /\ pc \in {"start", "validate", "done"}
        /\ NoWork
        /\ pc = "done" => err \in RejectionErrors
        /\ pc # "done" => err = "none"
  /\ err \in RejectionErrors => Rejected
  /\ pc \notin {"start", "validate"} /\ err \notin RejectionErrors => ~Rejected

\* run has returned the validation error for dates that parse, --since being
\* after --until.
C19_Witness ==
  /\ pc = "done"
  /\ err = "validation error"
  /\ ParseDateRange(flags.since, flags.until).err = "nil"
  /\ cfg.Since > cfg.Until
  /\ cfg.Until # NoTime
  /\ NoWork

\* run has returned ParseDateRange's error.
C19_WitnessDate ==
  /\ pc = "done"
  /\ err = "invalid --until format"
  /\ NoWork

(***************************************************************************)
(* run up to the return of Validate, over flag values of every kind.       *)
(***************************************************************************)
\* Values of --repo: none, a/x, a, /x, a/, a/x/y, / and a//x.
ValidateRepos ==
  { StrEmpty, RepoNames[1], OrgName, <<Slash, 120>>, <<97, Slash>>,
    RepoNames[1] \o <<Slash, 121>>, <<Slash>>, <<97, Slash, Slash, 120>> }

\* Values of --sort: none, the four fields, fields with an order, and strings
\* with an unknown field, an unknown or empty order, or more than one colon.
ValidateSorts ==
  { StrEmpty, StrRepository, StrTimestamp, StrCode, StrEvent,
    StrCode \o <<Colon>> \o StrAsc, StrEvent \o <<Colon>> \o StrDesc,
    StrAsc, StrCode \o <<120>>,
    StrCode \o <<Colon>> \o OrgName, StrCode \o <<Colon>>,
    <<Colon>> \o StrAsc, <<Colon>>, OrgName \o <<Colon>> \o StrAsc,
    StrCode \o <<Colon>> \o StrAsc \o <<Colon>> \o StrDesc,
    StrCode \o <<Colon, Colon>>, OrgName \o <<Colon, Colon>> }

ValidateDates == {DateEmpty, DateMalformed, DateOf(1), DateOf(2)}

ValidateInputs ==
  { [cfg |-> [BaseConfig EXCEPT !.Org = o, !.Repo = r, !.Head = h, !.SortBy = s],
     flags |-> [since |-> ds, until |-> du]] :
      o \in {StrEmpty, OrgName}, r \in ValidateRepos, h \in -1..MaxHead,
      s \in ValidateSorts, ds \in ValidateDates, du \in ValidateDates }

InitValidate ==
  /\ \E in \in ValidateInputs : cfg = in.cfg /\ flags = in.flags
  /\ RunIdle
  /\ SortIdle
  /\ PoolIdle
  /\ FilterIdle
  /\ TableIdle

NextValidate ==
  \/ RunParseDates
  \/ RunValidate

SpecValidate == InitValidate /\ [][NextValidate]_vars

(***************************************************************************)
(* C20.  Validate returns an error exactly when: --org and --repo are both *)
(* set or both empty; or --repo is set and is not two non-empty parts with *)
(* one slash between them; or both dates are set and Since is after Until; *)
(* or Head is negative; or --sort is set and its field is not repository,  *)
(* timestamp, code or event, or it has more than one colon, or it has one  *)
(* colon and what follows is not asc or desc.  Otherwise it returns nil.   *)
(* The rules are stated on the bytes of the flag values.                   *)
(***************************************************************************)
CountByte(s, b) == Cardinality({i \in 1..Len(s) : s[i] = b})

\* s up to its first b, or all of s.
UpToFirst(s, b) ==
  IF CountByte(s, b) = 0 THEN s
  ELSE SubSeq(s, 1, (CHOOSE i \in 1..Len(s) : s[i] = b /\ \A j \in 1..(i - 1) : s[j] # b) - 1)

\* s after its last b.
AfterLast(s, b) ==
  SubSeq(s, (CHOOSE i \in 1..Len(s) : s[i] = b /\ \A j \in (i + 1)..Len(s) : s[j] # b) + 1,
         Len(s))

RuleTarget(c) == (c.Org = StrEmpty) = (c.Repo = StrEmpty)

RuleRepo(c) ==
  /\ c.Repo # StrEmpty
  /\ \/ CountByte(c.Repo, Slash) # 1
     \/ c.Repo[1] = Slash
     \/ c.Repo[Len(c.Repo)] = Slash

RuleDates(c) == c.Since # NoTime /\ c.Until # NoTime /\ c.Since > c.Until

RuleHead(c) == c.Head < 0

RuleSortField(c) ==
  /\ c.SortBy # StrEmpty
  /\ UpToFirst(c.SortBy, Colon) \notin {StrRepository, StrTimestamp, StrCode, StrEvent}

RuleSortOrder(c) ==
  /\ c.SortBy # StrEmpty
  /\ \/ CountByte(c.SortBy, Colon) > 1
     \/ /\ CountByte(c.SortBy, Colon) = 1
        /\ AfterLast(c.SortBy, Colon) \notin {StrAsc, StrDesc}

ValidationRules(c) ==
  \/ RuleTarget(c)
  \/ RuleRepo(c)
  \/ RuleDates(c)
  \/ RuleHead(c)
  \/ RuleSortField(c)
  \/ RuleSortOrder(c)

C20_ValidationRules ==
  /\ (Validate(cfg) # "nil") = ValidationRules(cfg)
  /\ pc = "client" => ~ValidationRules(cfg)
  /\ pc = "done" =>
        \/ err = "validation error" /\ ValidationRules(cfg)
        \/ err \in {"invalid --since format", "invalid --until format"}

\* Validate has rejected a configuration for one rule alone: the order token
\* of --sort is empty.
C20_Witness ==
  /\ pc = "done"
  /\ err = "validation error"
  /\ RuleSortOrder(cfg)
  /\ ~RuleTarget(cfg)
  /\ ~RuleRepo(cfg)
  /\ ~RuleDates(cfg)
  /\ ~RuleHead(cfg)
  /\ ~RuleSortField(cfg)
  /\ CountByte(cfg.SortBy, Colon) = 1

\* Validate has returned nil for a repository, parsed dates, a head limit and
\* a sort with an order.
C20_WitnessAccepted ==
  /\ pc = "client"
  /\ cfg.Repo # StrEmpty
  /\ cfg.Since # NoTime
  /\ cfg.Until # NoTime
  /\ cfg.Head > 0
  /\ CountByte(cfg.SortBy, Colon) = 1

(***************************************************************************)
(* GetSortConfig and ApplySort over --sort values of every kind, those     *)
(* with a field Validate would reject included.                            *)
(***************************************************************************)
\* --sort values with the field "a": alone, with an order, with two colons.
UnknownSortFlags ==
  { OrgName, OrgName \o <<Colon>> \o StrAsc, OrgName \o <<Colon>> \o StrDesc,
    OrgName \o <<Colon>> \o StrAsc \o <<Colon>> \o StrDesc }

InitSortAny ==
  /\ cfg = BaseConfig
  /\ flags = NoDates
  /\ RunIdle
  /\ PoolIdle
  /\ FilterIdle
  /\ TableIdle
  /\ sIn \in SortInputs
  /\ sFlag \in SortFlags \cup UnknownSortFlags
  /\ sHead = 0
  /\ sSorted = <<>>
  /\ sAgain = <<>>
  /\ sLimited = <<>>
  /\ sPc = "in"

SpecSortAny == InitSortAny /\ [][NextSort]_vars

(***************************************************************************)
(* C21.  GetSortConfig returns timestamp descending for an empty --sort;   *)
(* for a field alone, ascending for repository and event and descending    *)
(* for timestamp and code; for field:order with one of the four fields,    *)
(* the field and the order given.  ApplySort with what GetSortConfig       *)
(* returns leaves the slice sorted accordingly, and for a field that is    *)
(* none of the four, sorted by timestamp descending whatever the order.    *)
(***************************************************************************)
\* The field and direction the documentation gives for a --sort value, from
\* its bytes.
DocumentedSort(flag) ==
  LET field == UpToFirst(flag, Colon)
  IN  IF flag = StrEmpty \/ field \notin SortFields THEN <<StrTimestamp, FALSE>>
      ELSE IF CountByte(flag, Colon) = 1 THEN <<field, AfterLast(flag, Colon) = StrAsc>>
      ELSE <<field, field \in {StrRepository, StrEvent}>>

C21_SortDefaultsAndFallback ==
  /\ sFlag \in SortFlags => SortConfigOf(sFlag) = DocumentedSort(sFlag)
  /\ sPc # "in" =>
        /\ IsSortedBy(sSorted, DocumentedSort(sFlag)[1], DocumentedSort(sFlag)[2])
        /\ SameRecords(sSorted, sIn)
  /\ SortConfigOf(StrEmpty) = <<StrTimestamp, FALSE>>
  /\ SortConfigOf(StrRepository) = <<StrRepository, TRUE>>
  /\ SortConfigOf(StrEvent) = <<StrEvent, TRUE>>
  /\ SortConfigOf(StrTimestamp) = <<StrTimestamp, FALSE>>
  /\ SortConfigOf(StrCode) = <<StrCode, FALSE>>

\* --sort=a:asc has reordered a slice, and the result is not in ascending
\* order of timestamp.
C21_Witness ==
  /\ sPc = "sorted"
  /\ sFlag = OrgName \o <<Colon>> \o StrAsc
  /\ SortConfigOf(sFlag)[2]
  /\ sSorted # sIn
  /\ ~IsSortedBy(sSorted, StrTimestamp, TRUE)

(***************************************************************************)
(* C22.  After a sort by status code, a record with status code 0 stands   *)
(* before every record with a positive status code when the order is       *)
(* ascending, and after every such record when it is descending.  The same *)
(* holds after the head limit, which sorts again.                          *)
(***************************************************************************)
ZeroFirst(seq) ==
  \A i, j \in 1..Len(seq) :
     (seq[i].StatusCode = 0 /\ seq[j].StatusCode > 0) => i < j

ZeroLast(seq) ==
  \A i, j \in 1..Len(seq) :
     (seq[i].StatusCode = 0 /\ seq[j].StatusCode > 0) => i > j

C22_SentinelOrdering ==
  (sPc # "in" /\ SortConfigOf(sFlag)[1] = StrCode) =>
     /\ IF SortConfigOf(sFlag)[2] THEN ZeroFirst(sSorted) ELSE ZeroLast(sSorted)
     /\ sPc = "limited" =>
           IF SortConfigOf(sFlag)[2] THEN ZeroFirst(sLimited) ELSE ZeroLast(sLimited)

\* --sort=code:asc has moved a record with code 0 from behind a record with
\* code 200 to the front.
C22_Witness ==
  /\ sPc = "sorted"
  /\ sFlag = StrCode \o <<Colon>> \o StrAsc
  /\ Len(sIn) >= 2
  /\ sIn[1].StatusCode = 200
  /\ sIn[Len(sIn)].StatusCode = 0
  /\ sSorted[1].StatusCode = 0
  /\ ZeroLast(sIn)

(***************************************************************************)
(* C23.  With --failed every printed record has status code 0 or at least  *)
(* 400, and the records printed are those with such a code that pass the   *)
(* date range filter, the enrichment and URL filter when --filter is set,  *)
(* and the head limit.  Without --failed the same holds with no condition  *)
(* on the status code.  IsFailed is true of 0 and of 400 and above only.   *)
(***************************************************************************)
StatusCodes == {-1, 0, 1, 199, 200, 204, 302, 399, 400, 401, 404, 499, 500, 503, 599}

FailedCode(code) == code = 0 \/ code >= 400

\* d passes the date range filter and, with --failed, has a failed code.
KeptBeforeEnrichment(d) ==
  /\ InRange(d.DeliveredAt, cfg.Since, cfg.Until)
  /\ cfg.Failed => FailedCode(d.StatusCode)

\* The records that reach the sort.
KeptBeforeSort ==
  IF cfg.Filter = StrEmpty
  THEN SelectSeq(allDeliveries, KeptBeforeEnrichment)
  ELSE SelectSeq(detailedDeliveries, LAMBDA d : MatchesPattern(d.URL, cfg.Filter))

\* IsFailed on each code of StatusCodes.
IsFailedAsDocumented == \A code \in StatusCodes : IsFailed(code) = FailedCode(code)

C23_FailedOnly ==
  /\ IsFailedAsDocumented
  /\ cfg.Failed =>
        \A o \in 1..Len(stdout) : \A i \in 1..Len(stdout[o].deliveries) :
           FailedCode(stdout[o].deliveries[i].StatusCode)
  /\ enrichRet = "nil" => SameRecords(eInput, SelectSeq(allDeliveries, KeptBeforeEnrichment))
  /\ \A o \in 1..Len(stdout) :
        /\ SubBagById(stdout[o].deliveries, KeptBeforeSort)
        /\ \A r \in RepoKeys(KeptBeforeSort) :
              Len(RepoGroup(stdout[o].deliveries, r)) =
                 IF cfg.Head > 0
                 THEN Min(cfg.Head, Len(RepoGroup(KeptBeforeSort, r)))
                 ELSE Len(RepoGroup(KeptBeforeSort, r))

\* A run with --failed listed records with codes 500, 0 and 200 and printed
\* the first two.
C23_Witness ==
  /\ pc = "done"
  /\ cfg.Failed
  /\ cfg.Head = 0
  /\ \E i \in 1..Len(allDeliveries) : allDeliveries[i].StatusCode = 200
  /\ Len(stdout) = 1
  /\ \E i \in 1..Len(stdout[1].deliveries) : stdout[1].deliveries[i].StatusCode = 0
  /\ \E i \in 1..Len(stdout[1].deliveries) : stdout[1].deliveries[i].StatusCode = 500
  /\ Len(stdout[1].deliveries) < Len(allDeliveries)

\* A run without --failed printed a record with code 200.
C23_WitnessDisabled ==
  /\ pc = "done"
  /\ ~cfg.Failed
  /\ Len(stdout) = 1
  /\ \E i \in 1..Len(stdout[1].deliveries) : stdout[1].deliveries[i].StatusCode = 200
  /\ \E i \in 1..Len(stdout[1].deliveries) : stdout[1].deliveries[i].StatusCode = 0

(***************************************************************************)
(* C24.  InRange is true of a time exactly when it is not before since, if *)
(* since is set, and not after until, if until is set: a time equal to a   *)
(* bound is in range, and with neither bound set every time is.  The date  *)
(* range filter keeps exactly the records whose DeliveredAt is so.         *)
(***************************************************************************)
Instants == 0..5

Within(t, since, until) ==
  /\ since # NoTime => t >= since
  /\ until # NoTime => t <= until

C24_InclusiveRange ==
  /\ \A t \in Instants :
        /\ InRange(t, fCfg.Since, fCfg.Until) = Within(t, fCfg.Since, fCfg.Until)
        /\ fCfg.Since # NoTime => InRange(fCfg.Since, fCfg.Since, NoTime)
        /\ fCfg.Until # NoTime => InRange(fCfg.Until, NoTime, fCfg.Until)
        /\ InRange(t, NoTime, NoTime)
  /\ (fDone = 1 /\ fOrder[1] = "time") =>
        /\ fOut = SelectSeq(fIn, LAMBDA d : Within(d.DeliveredAt, fCfg.Since, fCfg.Until))
        /\ (fCfg.Since = NoTime /\ fCfg.Until = NoTime) => fOut = fIn

\* With since 2 and until 3, of records at the instants 1, 2, 3 and 4 the
\* filter has kept those at 2 and 3.
C24_Witness ==
  /\ fDone = 1
  /\ fOrder[1] = "time"
  /\ fCfg.Since = 2
  /\ fCfg.Until = 3
  /\ {fIn[i].DeliveredAt : i \in 1..Len(fIn)} = {1, 2, 3, 4}
  /\ {fOut[i].DeliveredAt : i \in 1..Len(fOut)} = {2, 3}

(***************************************************************************)
(* C25.  From the call of fetchDeliveryDetails on, the slice it was handed *)
(* never changes: while it runs and when it has returned it is run's       *)
(* filteredDeliveries, element for element, each with the URL written at   *)
(* its fetch; no step of a worker changes filteredDeliveries or            *)
(* allDeliveries.  Each record is taken from jobs by one worker only, and  *)
(* the url of a detail is written once, to the copy that worker sends.     *)
(***************************************************************************)
EnrichInputIntact ==
  /\ pc \in {"eSend", "eCollect", "filterURL"} => eInput = filteredDeliveries
  /\ SubBagById(eInput, allDeliveries)
  /\ \A i \in 1..Len(eInput) :
        /\ Occurrences(allDeliveries, eInput[i]) = 1
        /\ HasHookURL(eInput[i])
        /\ CopiesIn(eInput[i], detailCalls) <= 1
        /\ CopiesIn(eInput[i], eRunning) <= 1
        /\ Cardinality({x \in details : x.delivery = eInput[i]}) <= 1
        /\ Occurrences(eJobs, eInput[i]) + CopiesIn(eInput[i], eRunning)
              + Cardinality({x \in details : x.delivery = eInput[i]}) <= 1
  /\ \A x \in details : Occurrences(eInput, x.delivery) = 1
  /\ \A i \in 1..Len(eResults) : Cardinality(URLWritesAtEnrich(eResults[i])) = 1
  /\ \A i \in 1..Len(detailedDeliveries) :
        Cardinality(URLWritesAtEnrich(detailedDeliveries[i])) = 1

EnrichInputKept ==
  /\ eInput # <<>> => eInput' = eInput
  /\ pc \in {"eSend", "eCollect"} =>
        /\ filteredDeliveries' = filteredDeliveries
        /\ allDeliveries' = allDeliveries

C25_EnrichmentCopies == [](EnrichInputIntact) /\ [][EnrichInputKept]_vars

\* fetchDeliveryDetails has returned two copies that carry another URL than
\* the records it was handed, which are as they were.
C25_Witness ==
  /\ pc = "filterURL"
  /\ enrichRet = "nil"
  /\ Len(eInput) = 2
  /\ Len(detailedDeliveries) = 2
  /\ eInput = filteredDeliveries
  /\ \A i \in 1..2 : eInput[i].URL = UrlSlack
  /\ \A i \in 1..2 : detailedDeliveries[i].URL = UrlCi

(***************************************************************************)
(* internal/output: FormatTable.  A row is the cells appended to the       *)
(* table; the timestamp cell holds the instant.                            *)
(***************************************************************************)
\* "\033[31m", "\033[32m", "\033[33m" and "\033[0m"
AnsiRed == <<27, 91, 51, 49, 109>>
AnsiGreen == <<27, 91, 51, 50, 109>>
AnsiYellow == <<27, 91, 51, 51, 109>>
AnsiReset == <<27, 91, 48, 109>>

\* "-", "..." and "delivery failed"
StrDash == <<45>>
StrDots == <<46, 46, 46>>
StrDeliveryFailed == <<100, 101, 108, 105, 118, 101, 114, 121, 32, 102, 97, 105, 108, 101, 100>>

\* The status cell of a row.
StatusCell(d) ==
  IF d.StatusCode = 0 THEN AnsiRed \o StrDeliveryFailed \o AnsiReset
  ELSE IF d.Status = StrEmpty THEN StrDash
  ELSE IF d.StatusCode >= 200 /\ d.StatusCode < 300 THEN AnsiGreen \o d.Status \o AnsiReset
  ELSE IF d.StatusCode >= 400 THEN AnsiRed \o d.Status \o AnsiReset
  ELSE IF d.StatusCode >= 300 /\ d.StatusCode < 400 THEN AnsiYellow \o d.Status \o AnsiReset
  ELSE d.Status

\* The URL cell of a row.
URLCell(d) ==
  IF d.URL = StrEmpty THEN StrDash
  ELSE IF Len(d.URL) > 50 THEN SubSeq(d.URL, 1, 47) \o StrDots
  ELSE d.URL

TableRow(d) ==
  [ID |-> d.ID, Repository |-> d.Repository, HookID |-> d.HookID,
   Timestamp |-> d.DeliveredAt, Status |-> StatusCell(d), Code |-> d.StatusCode,
   Event |-> d.Event, Action |-> IF d.Action = StrEmpty THEN StrDash ELSE d.Action,
   URL |-> URLCell(d)]

\* FormatTable(deliveries, w): what it writes.
FormatTable(deliveries) ==
  IF Len(deliveries) = 0
  THEN [message |-> "No webhook deliveries found", rows |-> <<>>]
  ELSE [message |-> "", rows |-> [i \in 1..Len(deliveries) |-> TableRow(deliveries[i])]]

\* Status labels "" and "OK"; codes on both sides of each boundary.
TableLabels == {StrEmpty, <<79, 75>>}
TableCodes == {0, 100, 199, 200, 299, 300, 399, 400, 404, 500}

TableRecords ==
  { [ID |-> 1, DeliveredAt |-> 1, Status |-> l, StatusCode |-> c, Event |-> EventPush,
     Action |-> StrEmpty, URL |-> UrlSlack, Repository |-> RepoNames[1], HookID |-> 1] :
      l \in TableLabels, c \in TableCodes }

TableInputs == UNION {[1..n -> TableRecords] : n \in 0..MaxTableLen}

InitTable ==
  /\ cfg = BaseConfig
  /\ flags = NoDates
  /\ RunIdle
  /\ SortIdle
  /\ PoolIdle
  /\ FilterIdle
  /\ tIn \in TableInputs
  /\ tOut = <<>>
  /\ tPc = "call"

FormatTableCall ==
  /\ tPc = "call"
  /\ tOut' = <<FormatTable(tIn)>>
  /\ tPc' = "written"
  /\ UNCHANGED <<mainVars, sortVars, poolVars, filterVars, tIn>>

NextTable == FormatTableCall

SpecTable == InitTable /\ [][NextTable]_vars

(***************************************************************************)
(* C26.  In every row FormatTable writes, the status cell is wrapped in    *)
(* green when the code is 2xx, in yellow when it is 3xx, and in red when   *)
(* it is 0 or at least 400, whatever the status label, the empty label     *)
(* included.                                                               *)
(***************************************************************************)
HasColour(cell, ansi) ==
  /\ Len(cell) >= Len(ansi) + Len(AnsiReset)
  /\ SubSeq(cell, 1, Len(ansi)) = ansi
  /\ SubSeq(cell, Len(cell) - Len(AnsiReset) + 1, Len(cell)) = AnsiReset

C26_StatusColouring ==
  tPc = "written" =>
     \A i \in 1..Len(tIn) :
        LET code == tIn[i].StatusCode
            cell == tOut[1].rows[i].Status
        IN  /\ (code >= 200 /\ code < 300) => HasColour(cell, AnsiGreen)
            /\ (code >= 300 /\ code < 400) => HasColour(cell, AnsiYellow)
            /\ (code = 0 \/ code >= 400) => HasColour(cell, AnsiRed)

\* What FormatTable does: the colours hold for a record whose status label
\* is not empty or whose code is 0; for an empty label and any other code the
\* cell is "-" without a colour.
ColouredWhenLabelled ==
  tPc = "written" =>
     \A i \in 1..Len(tIn) :
        LET code == tIn[i].StatusCode
            cell == tOut[1].rows[i].Status
        IN  IF tIn[i].Status = StrEmpty /\ code # 0
            THEN cell = StrDash
            ELSE /\ (code >= 200 /\ code < 300) => HasColour(cell, AnsiGreen)
                 /\ (code >= 300 /\ code < 400) => HasColour(cell, AnsiYellow)
                 /\ (code = 0 \/ code >= 400) => HasColour(cell, AnsiRed)

(***************************************************************************)
(* C27.  In each processRepository call that got the hooks of its          *)
(* repository, ListRepoHookDeliveries is called once for every hook when   *)
(* --filter is empty; when it is set, once for every hook whose config url *)
(* contains the pattern, letter case ignored, and never for another hook.  *)
(* Every record the call returns carries its repository and the id of the  *)
(* hook in whose listing the record was.  A call that could not get the    *)
(* hooks lists nothing.                                                    *)
(***************************************************************************)
\* The ids of the deliveries the listing of hook id answered in x.
ListingIDs(x, id) ==
  {x.answer.delivResp[id].deliveries[i].ID :
     i \in 1..Len(x.answer.delivResp[id].deliveries)}

C27_HookPreFilter ==
  \A x \in fetched :
     /\ x.answer.hooksResp.err => x.result.listed = <<>>
     /\ \A i \in 1..Len(x.result.listed) :
           \E h \in HooksOf(x) : h.ID = x.result.listed[i]
     /\ \A h \in HooksOf(x) :
           Occurrences(x.result.listed, h.ID) =
              IF cfg.Filter = StrEmpty \/ ContainsFold(h.ConfigURL, cfg.Filter)
              THEN 1 ELSE 0
     /\ \A i \in 1..Len(x.result.deliveries) :
           LET d == x.result.deliveries[i]
           IN  /\ d.Repository = x.repo
               /\ Occurrences(x.result.listed, d.HookID) = 1
               /\ ~x.answer.delivResp[d.HookID].err
               /\ d.ID \in ListingIDs(x, d.HookID)

\* With pattern "sl" a call got two hooks, listed the deliveries of the hook
\* with url "SL.x" only, and returned its record.
C27_Witness ==
  /\ cfg.Filter = PatternSl
  /\ \E x \in fetched :
        /\ Cardinality(HooksOf(x)) = 2
        /\ x.result.listed = <<Hook1.ID>>
        /\ Len(x.result.deliveries) = 1
        /\ x.result.deliveries[1].HookID = Hook1.ID
        /\ x.result.deliveries[1].Repository = x.repo

\* Without a pattern a call listed the deliveries of both hooks.
C27_WitnessNoPattern ==
  /\ cfg.Filter = StrEmpty
  /\ \E x \in fetched :
        /\ x.result.listed = <<Hook1.ID, Hook2.ID>>
        /\ Len(x.result.deliveries) = 3

(***************************************************************************)
(* C28.  In both pools jobs holds at most N messages and so does each      *)
(* channel the workers send on (results in discovery; results and errors   *)
(* in enrichment), N being the number of items.  Whenever the sending loop *)
(* has an item left, jobs has room; whenever a worker has a fetch in       *)
(* flight, the channel for either outcome has room, whether or not the     *)
(* collecting loop has received anything.                                  *)
(***************************************************************************)
C28_ChannelCapacity ==
  /\ pQueued <= pN
  /\ pOk <= pN
  /\ pFail <= pN
  /\ pKind = "discovery" => pOk + pFail <= pN
  /\ pQueued + pRunning + pOk + pFail + pCollected = pSent
  /\ pSent <= pN
  /\ (pPc = "send" /\ pSent < pN) => pQueued < pN
  /\ pRunning > 0 => (PoolRoomForSuccess /\ PoolRoomForFailure)

\* Every outcome of a pool of PoolMaxItems items waits in a channel, successes
\* and failures, and the collecting loop has received none.
C28_Witness ==
  /\ pN = PoolMaxItems
  /\ pPc = "collect"
  /\ pCollected = 0
  /\ pOk + pFail = pN
  /\ pOk > 0
  /\ pFail > 0

\* Every job has been sent and no worker has received one.
C28_WitnessJobs ==
  /\ pN = PoolMaxItems
  /\ pQueued = pN
  /\ pRunning = 0

(***************************************************************************)
(* C29.  Without a head limit, a run that has handed its result to the     *)
(* formatter has handed it the same records, each as often, as the run     *)
(* with the same answers whose results arrive in the order of submission,  *)
(* whatever the order in which the discovery and enrichment workers        *)
(* delivered; the two sequences carry the same sort key at every position, *)
(* so they differ at most in the order of records of equal key.            *)
(***************************************************************************)
C29_SameRecordsAnyInterleaving ==
  (pc = "done" /\ err = "nil" /\ cfg.Head = 0) =>
     /\ SameRecords(stdout[1].deliveries, RefOutput)
     /\ \A i \in 1..Len(RefOutput) :
           KeyCompare(stdout[1].deliveries[i], RefOutput[i],
                      GetSortConfig(cfg)[1]) = 0

\* A finished run over two repositories whose results did not arrive in the
\* order of submission: its output is not the sequence of the reference run.
C29_Witness ==
  /\ pc = "done"
  /\ err = "nil"
  /\ cfg.Head = 0
  /\ Len(repos) = 2
  /\ stdout[1].deliveries # <<>>
  /\ stdout[1].deliveries # RefOutput

\* A finished run whose enrichment results were collected out of order.
C29_WitnessEnrichment ==
  /\ pc = "done"
  /\ err = "nil"
  /\ cfg.Head = 0
  /\ cfg.Filter # StrEmpty
  /\ Len(detailedDeliveries) > 1
  /\ detailedDeliveries # RefEnrich(eInput)
  /\ stdout[1].deliveries # <<>>

(***************************************************************************)
(* C30.  cfg is written only at the start of run, by the assignment of     *)
(* Since and Until, when no worker of either pool has been started; once   *)
(* workers exist cfg never changes, and whenever a discovery worker is in  *)
(* processRepository, where it reads cfg.Filter, run is past its write.    *)
(***************************************************************************)
WorkersStarted == dNumWorkers > 0 \/ eNumWorkers > 0

ReadingFilter == dRunning # EmptyBag

WriteBeforeWorkers ==
  cfg' # cfg =>
     /\ pc = "start"
     /\ pc' = "validate"
     /\ ~WorkersStarted
     /\ ~WorkersStarted'
     /\ ~ReadingFilter
     /\ cfg' = [cfg EXCEPT !.Since = cfg'.Since, !.Until = cfg'.Until]

C30_ConfigWrittenBeforeWorkers ==
  /\ [](ReadingFilter => (WorkersStarted /\ pc \in {"dSend", "dCollect"}))
  /\ [][WriteBeforeWorkers]_vars
  /\ [][(WorkersStarted \/ ReadingFilter) => cfg' = cfg]_vars

\* A discovery worker is in processRepository in a run that assigned Since and
\* Until from the flags.
C30_Witness ==
  /\ ReadingFilter
  /\ flags.since # DateEmpty
  /\ cfg.Since # NoTime
  /\ dNumWorkers > 1

====
